---- MODULE Spec2Model ----
(***************************************************************************)
(* OpenWhisperAI push-to-talk runtime.                                     *)
(*                                                                         *)
(* Threads modelled:                                                       *)
(*   - the PTT runtime thread (PttHandle::new loop) that owns the          *)
(*     PttController and handles commands and hotkey edges;                *)
(*   - the audio backend thread that runs the sample callback registered   *)
(*     by PttCaptureService::start;                                        *)
(*   - the environment: command senders (IPC, signal worker, control       *)
(*     server) and the hotkey listener feeding the action-edge channel.    *)
(*                                                                         *)
(* The runtime thread is cut into atomic segments at its accesses to the   *)
(* memory it shares with the audio callback (capture_active, the buffer    *)
(* mutex) and around the synchronous transcription call.                   *)
(*                                                                         *)
(* Specifications:                                                         *)
(*   Spec       the state machine driven by start, stop, manual_toggle,    *)
(*              hotkey edges and sample blocks;                            *)
(*   SpecFault  Spec plus a panic of the sample callback under the buffer  *)
(*              lock, the one way the capture-buffer mutex gets poisoned;  *)
(*   SpecConfig the runtime thread taking commands as they arrive,         *)
(*              set_hotkey, update_settings, set_active_model included;    *)
(*   SpecLive   the runtime thread and its channels under fairness;        *)
(*   SpecCapture  the capture service driven by a single caller;           *)
(*   SpecListener the hotkey manager and the listener thread;              *)
(*   SpecSignal the SIGUSR1 worker and the control server against a clock; *)
(*   SpecModel  the model manager, its cache directory and a downloader;   *)
(*   SpecAudio  the audio capture service over a backend that can fail;    *)
(*   SpecBackend  the backend state machine behind apply_event;            *)
(*   SpecInject the text injector over a clipboard and a typer;            *)
(*   SpecDownload  two download threads installing the same model;         *)
(*   SpecOverride  SpecConfig next to user-requested model downloads.      *)
(***************************************************************************)
EXTENDS Integers, Sequences, FiniteSets, TLC

(***************************************************************************)
(* Bounds of the model.                                                    *)
(***************************************************************************)
MaxQueue == 1
MaxChan == 1
NumBlocks == 2
MaxTicks == 12
MaxCalls == 3
MaxStreams == 3
MaxEmits == 3

(***************************************************************************)
(* Values.                                                                 *)
(***************************************************************************)
Idle == [tag |-> "Idle", message |-> ""]
Armed == [tag |-> "Armed", message |-> ""]
Capturing == [tag |-> "Capturing", message |-> ""]
Processing == [tag |-> "Processing", message |-> ""]
Error(m) == [tag |-> "Error", message |-> m]
NoState == [tag |-> "None", message |-> ""]

OutputModes == {"ui_only", "clipboard", "direct_write"}
DefaultOutputMode == "ui_only"
NoModel == "<none>"
ModelNames == {"base", "tiny"}
NoOverride == "none"
NoOverrides == [m \in ModelNames |-> NoOverride]

BufferLockPoisoned == "capture buffer lock was poisoned"
RefreshFailed == "audio backend error: refresh"
StreamStartFailed == "audio backend error: stream"
TranscribeFailed == "transcribe failed"
NoSpeech == "no speech detected"
UnsupportedKey == "unsupported hotkey key"
DirectWriteFailed == "direct write failed; copied to clipboard"
ClipboardFailed == "clipboard unavailable"

\* Texts a transcriber may return, as character sequences.
Texts == {<<" ", "o", "k">>, <<" ", " ">>, <<>>}
IsWhitespace(c) == c \in {" ", "\t", "\n"}

RECURSIVE TrimStart(_)
TrimStart(t) ==
  IF t = <<>> THEN <<>>
  ELSE IF IsWhitespace(Head(t)) THEN TrimStart(Tail(t)) ELSE t

RECURSIVE TrimEnd(_)
TrimEnd(t) ==
  IF t = <<>> THEN <<>>
  ELSE IF IsWhitespace(t[Len(t)]) THEN TrimEnd(SubSeq(t, 1, Len(t) - 1)) ELSE t

Trim(t) == TrimEnd(TrimStart(t))

TranscribeResults ==
  {[ok |-> TRUE, text |-> t, err |-> ""] : t \in Texts}
    \cup {[ok |-> FALSE, text |-> <<>>, err |-> TranscribeFailed]}

\* Hotkeys and payloads.  A payload's key is a character sequence;
\* parse_hotkey_key trims it, lowercases it and looks it up.
NoMods == {}
DefaultHotkey == [key |-> "Space", mods |-> {"ctrl", "alt"}]
Unsupported == "<unsupported>"

ToAsciiLowercase(c) ==
  CASE c = "S" -> "s" [] c = "P" -> "p" [] c = "A" -> "a" [] c = "C" -> "c"
    [] c = "E" -> "e" [] c = "F" -> "f" [] c = "K" -> "k" [] OTHER -> c

ParseHotkeyKey(name) ==
  LET trimmed == Trim(name)
      key == [i \in 1..Len(trimmed) |-> ToAsciiLowercase(trimmed[i])]
  IN CASE key = <<"s", "p", "a", "c", "e">> -> "Space"
       [] key = <<"f", "9">> -> "F9"
       [] key = <<"k">> -> "K"
       [] OTHER -> Unsupported

HotkeyPayloads ==
  {[key |-> <<" ", "S", "p", "a", "c", "e">>, mods |-> {"ctrl", "alt"}],
   [key |-> <<"F", "9">>, mods |-> {"ctrl"}],
   [key |-> <<"f", "1", "3">>, mods |-> NoMods]}

\* Events handed to emit_app_event, plus the writes of the output sinks.
Event(name, st, msg, text, ov) ==
  [name |-> name, state |-> st, message |-> msg, text |-> text, overrides |-> ov]
StateEvent(st) == Event("ptt_state", st, "", <<>>, NoOverrides)
ErrorEvent(m) == Event("ptt_error", NoState, m, <<>>, NoOverrides)
TranscriptionEvent(t) == Event("ptt_transcription", NoState, "", t, NoOverrides)
ModelStatusEvent(active, ov) == Event("model-download-status", NoState, active, <<>>, ov)
ClipboardWrite(t) == Event("os_clipboard", NoState, "", t, NoOverrides)
TypedText(t) == Event("os_typed", NoState, "", t, NoOverrides)

\* Commands of the runtime channel.
Cmd(kind, mode, model, payload) ==
  [kind |-> kind, mode |-> mode, model |-> model, payload |-> payload]
NoPayload == [key |-> <<>>, mods |-> NoMods]
StartInputs == {<<"direct_write", NoModel>>}
\* Commands that drive the state machine, and commands that configure it.
Commands ==
  {Cmd("Start", i[1], i[2], NoPayload) : i \in StartInputs}
    \cup {Cmd("Stop", "", NoModel, NoPayload)}
    \cup {Cmd("ManualToggle", "", NoModel, NoPayload)}
ConfigCommands ==
  {Cmd("SetHotkey", "", NoModel, p) : p \in HotkeyPayloads}
    \cup {Cmd("UpdateSettings", m, NoModel, NoPayload) : m \in {"ui_only"}}
    \cup {Cmd("SetActiveModel", "", m, NoPayload) : m \in {NoModel}}

\* Keys the listener sees: rdev keys, the hotkey keys map_key gives for them.
RawKeys == {"ControlLeft", "F9", "Space", "CapsLock"}
HotkeyKeys == {"F9", "Space"}
NotPressed == [held |-> FALSE, mods |-> NoMods]
NoKeyEvent == [type |-> "", key |-> ""]
NoAction == "<no action>"

\* The signal worker: its debounce window and poll period in milliseconds,
\* and the reading of SystemTime::now() at clock tick 0, which is more than
\* a debounce window after UNIX_EPOCH, the initial LAST_TOGGLE_MS.
DebounceMs == 400
PollMs == 50
NoIssue == [by |-> "", arrived |-> 0]

\* Model files.  A filename is its sequence of characters; a payload is the
\* bytes of a file or of a download.  An Option is the set of its values:
\* {} for None, {v} for Some(v).
Filenames ==
  {<<>>, <<"/", "m">>, <<".", ".">>, <<".", ".", "/", "m">>,
   <<"m", "/", ".", ".", "/", "m">>, <<"m", ".", ".", "b">>, <<"m">>,
   <<"m", ".", "b">>, <<"m", ".", "d", "o", "w", "n", "l", "o", "a", "d">>}
Payloads == {<<>>, <<7>>, <<7, 9>>, <<9, 7>>}
NoModelResult ==
  [op |-> "", ok |-> TRUE, err |-> "", downloaded |-> FALSE, bytes |-> <<>>]
NoModelScn == [n |-> 0, hit |-> FALSE, base |-> 0]
ModelSpecs ==
  [filename : Filenames, download_url : {{}, {"url"}},
   sha256 : {{}, {[of |-> <<7>>, upper |-> FALSE]},
             {[of |-> <<7, 9>>, upper |-> TRUE]}},
   size_bytes : {{}, {1}, {2}}]
DownloadResults ==
  [ok : {TRUE}, bytes : Payloads] \cup {[ok |-> FALSE, bytes |-> <<>>]}
\* Input devices the backend can report, by AudioDevice::id.
AudioDevices == {"0:Mock", "1:Mock"}
NoAudioResult == [op |-> "", err |-> ""]
\* BackendState::Recording; Idle, Processing and Error(m) are written as for
\* PttState.
Recording == [tag |-> "Recording", message |-> ""]
BackendStates == {Idle, Recording, Processing, Error("boom"), Error("late")}
BackendEvents ==
  [tag : {"StartRecording", "StopRecording", "StartProcessing",
          "FinishProcessing", "Reset"}, message : {""}]
    \cup [tag : {"Fail"}, message : {"boom", "late"}]
\* Texts on the clipboard or handed to inject_text.
ClipTexts == {"old", "hi"}
InjectFaults ==
  [get : BOOLEAN, set : BOOLEAN, paste : BOOLEAN, type : BOOLEAN,
   restore : BOOLEAN]
NoInjectResult == [ok |-> TRUE, outcome |-> "", restore |-> "", err |-> ""]
\* The download threads of ipc_model_download and the model they fetch.
DlThreads == {1, 2}
DlSpec ==
  [filename |-> <<"m">>, download_url |-> {"url"}, sha256 |-> {},
   size_bytes |-> {2}]
NoDlThread == [pc |-> "idle", bytes |-> <<>>, handle |-> 0, result |-> ""]
NoApplied == [event |-> "", ok |-> TRUE, state |-> NoState, err |-> <<>>]
NoAccepted == [sig |-> FALSE, sigArrived |-> 0, any |-> FALSE, anyAt |-> 0]

HotkeyActionEvents ==
  [action : {"ptt"}, state : {"Pressed", "Released"}]
\* End of the edge channel: the listener's sender was dropped.
SenderDropped == [action |-> "", state |-> "Disconnected"]

NoBlock == [id |-> 0, stale |-> FALSE]
NoWork == [drained |-> <<>>, output_mode |-> ""]
NoReply == [kind |-> "", ok |-> TRUE, state |-> NoState, err |-> ""]
NoResult == [ok |-> FALSE, text |-> <<>>, err |-> "", typeOk |-> TRUE, clipOk |-> TRUE]
NoCur == [kind |-> "", state |-> NoState, armed |-> FALSE, payload |-> NoPayload]

VARIABLES
  state, stateStore, armed, settings, activeModel, hotkey, bindings,
  runtimeStarted, hotkeyReceiver, levelReceiver, allowGlobalHotkeys,
  captureActive, buffer, bufferPoisoned, audioRunning, overrides,
  cmdQueue, hotkeyChan, rtpc, rtctx, work, cbpc, cbBlock, blockSeq,
  out, reply, outcome, cur, lastPub, suppressed, scn, trace, delivered,
  modifiers, pressedKeys, keyEvent, sent,
  clock, sigPending, pendingAt, lastToggleMs, workerPc, wake, httpPc, issued,
  accepted,
  registry, files, downloads, mmpc, pending, mmResult, mmScn, calls,
  devices, selectedDevice, stream, built, meter, audResult,
  machine, stateEvents, applied,
  clipText, injLog, injResult,
  dlDir, dlInodes, dlThr, bgDownloads

ctlVars == <<state, stateStore, armed, settings, activeModel, hotkey, bindings,
             runtimeStarted, hotkeyReceiver, levelReceiver, captureActive,
             buffer, audioRunning, overrides>>
scnVars == <<scn, trace, delivered>>
\* The listener thread's own state and what its last handler call did.
lsnVars == <<modifiers, pressedKeys, keyEvent, sent>>
\* The signal worker, the control server and the clock they read.
sigVars == <<clock, sigPending, pendingAt, lastToggleMs, workerPc, wake, httpPc,
             issued, accepted>>
\* The model manager, its cache directory and the call it is in.
mmVars == <<registry, files, downloads, mmpc, pending, mmResult, mmScn, calls>>
\* The audio capture service on its own, with the streams its backend built.
audVars == <<devices, selectedDevice, stream, built, meter, audResult>>
\* The backend state machine and the backend-state events it emitted.
beVars == <<machine, stateEvents, applied>>
\* The system clipboard and what the injector's last call did and returned.
injVars == <<clipText, injLog, injResult>>
\* The model directory shared by the download threads, and the threads.
dlVars == <<dlDir, dlInodes, dlThr>>
extVars == <<beVars, injVars, dlVars, bgDownloads>>
sideVars == <<lsnVars, sigVars, mmVars, audVars, extVars>>
vars == <<state, stateStore, armed, settings, activeModel, hotkey, bindings,
          runtimeStarted, hotkeyReceiver, levelReceiver, allowGlobalHotkeys,
          captureActive, buffer, bufferPoisoned, audioRunning, overrides,
          cmdQueue, hotkeyChan, rtpc, rtctx, work, cbpc, cbBlock, blockSeq,
          out, reply, outcome, cur, lastPub, suppressed, scn, trace, delivered,
          modifiers, pressedKeys, keyEvent, sent,
          clock, sigPending, pendingAt, lastToggleMs, workerPc, wake, httpPc,
          issued, accepted,
          registry, files, downloads, mmpc, pending, mmResult, mmScn, calls,
          devices, selectedDevice, stream, built, meter, audResult,
          machine, stateEvents, applied,
          clipText, injLog, injResult,
          dlDir, dlInodes, dlThr, bgDownloads>>

(***************************************************************************)
(* The controller and the capture service seen from the runtime thread,    *)
(* as one record, so that the methods of PttController compose the way     *)
(* they call each other in the source.  ok/err carry a method's Result.    *)
(***************************************************************************)
Snapshot ==
  [state |-> state, store |-> stateStore, armed |-> armed, settings |-> settings,
   active_model |-> activeModel, hotkey |-> hotkey, bindings |-> bindings,
   runtime_started |-> runtimeStarted, hotkey_receiver |-> hotkeyReceiver,
   level_receiver |-> levelReceiver, allow |-> allowGlobalHotkeys,
   capture_active |-> captureActive, buffer |-> buffer, poisoned |-> bufferPoisoned,
   audio_running |-> audioRunning, overrides |-> overrides,
   out |-> <<>>, lastPub |-> lastPub, suppressed |-> FALSE,
   ok |-> TRUE, err |-> ""]

Commit(s) ==
  /\ state' = s.state
  /\ stateStore' = s.store
  /\ armed' = s.armed
  /\ settings' = s.settings
  /\ activeModel' = s.active_model
  /\ hotkey' = s.hotkey
  /\ bindings' = s.bindings
  /\ runtimeStarted' = s.runtime_started
  /\ hotkeyReceiver' = s.hotkey_receiver
  /\ levelReceiver' = s.level_receiver
  /\ captureActive' = s.capture_active
  /\ buffer' = s.buffer
  /\ audioRunning' = s.audio_running
  /\ overrides' = s.overrides
  /\ out' = s.out
  /\ lastPub' = s.lastPub
  /\ suppressed' = s.suppressed

Fail(s, m) == [s EXCEPT !.ok = FALSE, !.err = m]

Emit(s, ev) == [s EXCEPT !.out = Append(@, ev)]

\* set_state without the same-state early return.
SetState_NoGuard(s, next) ==
  Emit([s EXCEPT !.state = next, !.store = next, !.lastPub = next], StateEvent(next))

\* PttController::set_state
SetState(s, next) ==
  IF s.state = next
    THEN [s EXCEPT !.suppressed = TRUE]
    ELSE Emit([s EXCEPT !.state = next, !.store = next, !.lastPub = next],
              StateEvent(next))

\* PttController::emit_error
EmitError(s, m) == Emit(SetState(s, Error(m)), ErrorEvent(m))

\* PttController::emit_output_warning
EmitOutputWarning(s, m) == Emit(s, ErrorEvent(m))

\* PttController::update_model_status_snapshot
UpdateModelStatusSnapshot(s) == Emit(s, ModelStatusEvent(s.active_model, s.overrides))

\* PttController::update_active_override
UpdateActiveOverride(s, status) ==
  IF s.active_model = NoModel THEN s
  ELSE [s EXCEPT !.overrides[s.active_model] = status]

MarkModelDownloading(s) == UpdateModelStatusSnapshot(UpdateActiveOverride(s, "Downloading"))
\* mark_model_ready that publishes the snapshot without clearing the override.
MarkModelReady_KeepsOverride(s) == UpdateModelStatusSnapshot(s)
MarkModelReady(s) == UpdateModelStatusSnapshot(UpdateActiveOverride(s, NoOverride))
MarkModelFailed(s) == UpdateModelStatusSnapshot(UpdateActiveOverride(s, "Failed"))

\* model_id_from_name(..).display_name()
DisplayName(name) == IF name = NoModel THEN "base" ELSE name

\* PttController::set_active_model
SetActiveModel(s, name) ==
  LET s1 == UpdateActiveOverride(s, NoOverride)
      s2 == [s1 EXCEPT !.active_model = DisplayName(name)]
      s3 == UpdateActiveOverride(s2, NoOverride)
  IN UpdateModelStatusSnapshot(s3)

\* PttController::update_settings
UpdateSettings(s, mode) == [s EXCEPT !.settings = mode]

\* PttCaptureService::start, called only when no stream is running
CaptureStart(s, startOk) ==
  LET s1 == [s EXCEPT !.capture_active = FALSE]
  IN IF s1.poisoned THEN Fail(s1, BufferLockPoisoned)
     ELSE LET s2 == [s1 EXCEPT !.buffer = <<>>]
          IN IF startOk THEN [s2 EXCEPT !.audio_running = TRUE]
             ELSE Fail(s2, StreamStartFailed)

\* PttCaptureService::stop
CaptureStop(s) == [s EXCEPT !.capture_active = FALSE, !.audio_running = FALSE]

\* PttController::prepare_audio
PrepareAudio(s, refreshOk, startOk) ==
  IF ~refreshOk THEN Fail(s, RefreshFailed)
  ELSE IF ~s.audio_running THEN CaptureStart(s, startOk)
  ELSE s

\* arm that sets armed before the audio is prepared.
Arm_ArmsFirst(s, mode, model, refreshOk, startOk) ==
  LET s1 == [s EXCEPT !.settings = mode, !.armed = TRUE]
      s2 == SetActiveModel(s1, model)
      s3 == PrepareAudio(s2, refreshOk, startOk)
  IN IF ~s3.ok THEN s3
     ELSE SetState(UpdateModelStatusSnapshot(s3), Armed)

\* PttController::arm
Arm(s, mode, model, refreshOk, startOk) ==
  LET s1 == [s EXCEPT !.settings = mode]
      s2 == SetActiveModel(s1, model)
      s3 == PrepareAudio(s2, refreshOk, startOk)
  IN IF ~s3.ok THEN s3
     ELSE SetState(UpdateModelStatusSnapshot([s3 EXCEPT !.armed = TRUE]), Armed)

\* PttController::ensure_runtime
EnsureRuntime(s) ==
  IF s.runtime_started THEN s
  ELSE [s EXCEPT !.hotkey_receiver = (@ \/ s.allow),
                 !.level_receiver = TRUE,
                 !.runtime_started = TRUE]

\* PttController::start
Start(s, mode, model, refreshOk, startOk) ==
  Arm(EnsureRuntime(s), mode, model, refreshOk, startOk)

\* stop that leaves the capture service running.
Stop_KeepsStream(s) ==
  SetState([s EXCEPT !.armed = FALSE], Idle)

\* PttController::stop
Stop(s) ==
  LET s1 == [s EXCEPT !.armed = FALSE]
      s2 == IF s1.audio_running THEN CaptureStop(s1) ELSE s1
  IN SetState(s2, Idle)

\* HotkeyManager::unregister / register_with_trigger
Unregister(b, hk) == {x \in b : x.hotkey # hk}
RegisterWithTrigger(b, hk, trigger, action) ==
  {x \in b : ~(x.hotkey = hk /\ x.trigger = trigger)}
    \cup {[hotkey |-> hk, trigger |-> trigger, action |-> action]}

\* register_hotkey_binding
RegisterHotkeyBinding(b, hk) ==
  RegisterWithTrigger(RegisterWithTrigger(b, hk, "Pressed", "ptt"), hk, "Released", "ptt")

\* set_hotkey that leaves the bindings of the current hotkey in place.
SetHotkey_KeepsOld(s, payload) ==
  LET key == ParseHotkeyKey(payload.key)
      hk == [key |-> key, mods |-> payload.mods]
  IN IF key = Unsupported THEN Fail(s, UnsupportedKey)
     ELSE [s EXCEPT !.bindings = RegisterHotkeyBinding(@, hk), !.hotkey = hk]

\* PttController::set_hotkey with PttHotkeyPayload::to_hotkey
SetHotkey(s, payload) ==
  LET key == ParseHotkeyKey(payload.key)
      hk == [key |-> key, mods |-> payload.mods]
  IN IF key = Unsupported THEN Fail(s, UnsupportedKey)
     ELSE [s EXCEPT !.bindings = RegisterHotkeyBinding(Unregister(@, s.hotkey), hk),
                    !.hotkey = hk]

\* handle_output whose failed direct write is not followed by a clipboard copy.
HandleOutput_NoFallback(s, mode, text, typeOk, clipOk) ==
  IF text = <<>> THEN s
  ELSE CASE mode = "ui_only" -> s
         [] mode = "clipboard" ->
              IF clipOk THEN Emit(s, ClipboardWrite(text)) ELSE Fail(s, ClipboardFailed)
         [] mode = "direct_write" ->
              IF typeOk THEN Emit(s, TypedText(text)) ELSE Fail(s, DirectWriteFailed)
         [] OTHER -> s

\* PttController::handle_output
HandleOutput(s, mode, text, typeOk, clipOk) ==
  IF text = <<>> THEN s
  ELSE CASE mode = "ui_only" -> s
         [] mode = "clipboard" ->
              IF clipOk THEN Emit(s, ClipboardWrite(text)) ELSE Fail(s, ClipboardFailed)
         [] mode = "direct_write" ->
              IF typeOk THEN Emit(s, TypedText(text))
              ELSE Fail(IF clipOk THEN Emit(s, ClipboardWrite(text)) ELSE s,
                        DirectWriteFailed)
         [] OTHER -> s

ArmedOrIdle(s) == IF s.armed THEN Armed ELSE Idle

\* complete_transcription that drops the armed runtime back to Idle.
CompleteTranscription_ToIdle(s, result) ==
  IF result.ok
    THEN IF Trim(result.text) = <<>>
           THEN LET s1 == Emit(s, ErrorEvent(NoSpeech))
                    s2 == MarkModelReady(s1)
                IN SetState(s2, Idle)
           ELSE LET s1 == Emit(s, TranscriptionEvent(result.text))
                    s2 == MarkModelReady(s1)
                IN SetState(s2, Idle)
    ELSE LET s1 == EmitError(s, result.err)
             s2 == MarkModelFailed(s1)
         IN SetState(s2, Idle)

\* PttController::complete_transcription
CompleteTranscription(s, result) ==
  IF result.ok
    THEN IF Trim(result.text) = <<>>
           THEN LET s1 == Emit(s, ErrorEvent(NoSpeech))
                    s2 == MarkModelReady(s1)
                IN SetState(s2, ArmedOrIdle(s2))
           ELSE LET s1 == Emit(s, TranscriptionEvent(result.text))
                    s2 == MarkModelReady(s1)
                IN SetState(s2, ArmedOrIdle(s2))
    ELSE LET s1 == EmitError(s, result.err)
             s2 == MarkModelFailed(s1)
         IN SetState(s2, ArmedOrIdle(s2))

\* A transcription that is cancelled: nothing dispatched, nothing published.
FinishWork_Cancelled(s, w, result, typeOk, clipOk) ==
  SetState(s, ArmedOrIdle(s))

\* The transcribe / handle_output / complete_transcription tail shared by
\* poll_hotkey_events and manual_toggle_recording.
FinishWork(s, w, result, typeOk, clipOk) ==
  LET s1 == IF result.ok
              THEN LET o == HandleOutput(s, w.output_mode, result.text, typeOk, clipOk)
                   IN IF o.ok THEN o
                      ELSE EmitOutputWarning([o EXCEPT !.ok = TRUE, !.err = ""], o.err)
              ELSE s
  IN CompleteTranscription(s1, result)

\* handle_hotkey_action without the press-as-release coercion.
EffectiveState_NoCoercion(s, event) ==
  event.state

\* effective_state of PttController::handle_hotkey_action.
EffectiveState(s, event) ==
  IF event.state = "Pressed" /\ s.state = Capturing THEN "Released" ELSE event.state

\* handle_hotkey_action whose Released branch does not enter Processing.
HandleHotkeyAction_NoProcessing(s, event) ==
  IF ~s.armed THEN [s |-> s, next |-> "idle"]
  ELSE IF event.action # "ptt" THEN [s |-> s, next |-> "idle"]
  ELSE IF EffectiveState(s, event) = "Pressed"
    THEN [s |-> [s EXCEPT !.capture_active = TRUE], next |-> "press_clear"]
    ELSE [s |-> MarkModelDownloading([s EXCEPT !.capture_active = FALSE]),
          next |-> "rel_take"]

\* PttController::handle_hotkey_action up to its first access to the memory
\* shared with the audio callback: the guards, the coercion of a Pressed edge
\* in Capturing, and the capture_active store.  next names the segment that
\* follows: "idle" (edge ignored), "press_clear" or "rel_take".
HandleHotkeyAction(s, event) ==
  IF ~s.armed THEN [s |-> s, next |-> "idle"]
  ELSE IF event.action # "ptt" THEN [s |-> s, next |-> "idle"]
  ELSE IF EffectiveState(s, event) = "Pressed"
    THEN [s |-> [s EXCEPT !.capture_active = TRUE], next |-> "press_clear"]
    ELSE [s |-> MarkModelDownloading(SetState([s EXCEPT !.capture_active = FALSE],
                                               Processing)),
          next |-> "rel_take"]

\* Pressed edge completion that sets the state without set_state.
PressedClear_Silent(s) ==
  IF s.poisoned THEN Fail(s, BufferLockPoisoned)
  ELSE [s EXCEPT !.buffer = <<>>, !.state = Capturing]

\* Pressed: the buffer lock and clear of PttCaptureService::handle_hotkey_action,
\* then set_state(Capturing).
PressedClear(s) ==
  IF s.poisoned THEN Fail(s, BufferLockPoisoned)
  ELSE SetState([s EXCEPT !.buffer = <<>>], Capturing)

\* Released: PttCaptureService::take_audio.
TakeAudio(s) ==
  IF s.poisoned THEN Fail(s, BufferLockPoisoned)
  ELSE [s EXCEPT !.buffer = <<>>]

\* manual_toggle_recording that synthesizes the wrong edge.
ToggleEdge_Inverted(s) ==
  [action |-> "ptt", state |-> IF s.state = Capturing THEN "Pressed" ELSE "Released"]

\* The edge synthesized by PttController::manual_toggle_recording.
ToggleEdge(s) ==
  [action |-> "ptt", state |-> IF s.state = Capturing THEN "Released" ELSE "Pressed"]

\* manual_toggle_recording without the early return in Processing.
ManualToggleRecording_NoBusyCheck(s, refreshOk, startOk) ==
  LET s1 == IF ~s.armed
              THEN Arm(s, s.settings, s.active_model, refreshOk, startOk)
              ELSE s
  IN IF ~s1.ok THEN [s |-> s1, next |-> "idle"]
     ELSE HandleHotkeyAction(s1, ToggleEdge(s1))

\* PttController::manual_toggle_recording up to the first segment boundary of
\* its handle_hotkey_action call.
ManualToggleRecording(s, refreshOk, startOk) ==
  IF s.state = Processing THEN [s |-> s, next |-> "idle"]
  ELSE LET s1 == IF ~s.armed
                   THEN Arm(s, s.settings, s.active_model, refreshOk, startOk)
                   ELSE s
       IN IF ~s1.ok THEN [s |-> s1, next |-> "idle"]
          ELSE HandleHotkeyAction(s1, ToggleEdge(s1))

(***************************************************************************)
(* Observer of the end-to-end hotkey cycle: a fresh runtime, a successful  *)
(* start, one Pressed edge, sample blocks delivered one after the other    *)
(* between the edges, one Released edge, a transcriber returning text.     *)
(* scn leaves the cycle ("off") on any other handling; trace collects the  *)
(* ptt_state and ptt_transcription events published along the cycle.       *)
(***************************************************************************)
ScnNext(label) ==
  CASE scn = "init" /\ label = "start_ok" -> "started"
    [] scn = "started" /\ label = "pressed_edge" /\ cbpc = "idle" -> "pressing"
    [] scn = "pressing" /\ label = "pressed_done" /\ cbpc = "idle" -> "pressed"
    [] scn = "pressed" /\ label = "block_begin" /\ rtpc = "idle" -> "pressed"
    [] scn = "pressed" /\ label = "block_append" /\ rtpc = "idle" -> "pressed"
    [] scn = "pressed" /\ label = "released_edge" /\ cbpc = "idle" -> "releasing"
    [] scn = "releasing" /\ label = "taken" /\ cbpc = "idle" -> "released"
    [] scn = "released" /\ label = "text" /\ cbpc = "idle" -> "done"
    [] OTHER -> "off"

IsTraced(ev) == ev.name \in {"ptt_state", "ptt_transcription"}

Observe(label, emitted, block) ==
  /\ scn' = ScnNext(label)
  /\ trace' = IF ScnNext(label) = "off" THEN <<>>
              ELSE trace \o SelectSeq(emitted, IsTraced)
  /\ delivered' = IF ScnNext(label) = "off" THEN <<>>
                  ELSE IF label = "block_append" THEN Append(delivered, block)
                  ELSE delivered

Reply(kind, s) ==
  [kind |-> kind, ok |-> s.ok, state |-> IF s.ok THEN s.state ELSE NoState, err |-> s.err]

(***************************************************************************)
(* Initial state: PttController::with_backend, attach_state_store.         *)
(***************************************************************************)
Init ==
  /\ state = Idle
  /\ stateStore = Idle
  /\ armed = FALSE
  /\ settings = DefaultOutputMode
  /\ activeModel = NoModel
  /\ hotkey = DefaultHotkey
  /\ bindings = RegisterHotkeyBinding({}, DefaultHotkey)
  /\ runtimeStarted = FALSE
  /\ hotkeyReceiver = FALSE
  /\ levelReceiver = FALSE
  /\ allowGlobalHotkeys \in BOOLEAN
  /\ captureActive = FALSE
  /\ buffer = <<>>
  /\ bufferPoisoned = FALSE
  /\ audioRunning = FALSE
  /\ overrides = NoOverrides
  /\ cmdQueue = <<>>
  /\ hotkeyChan = <<>>
  /\ rtpc = "idle"
  /\ rtctx = "poll"
  /\ work = NoWork
  /\ cbpc = "idle"
  /\ cbBlock = NoBlock
  /\ blockSeq = 0
  /\ out = <<>>
  /\ reply = NoReply
  /\ outcome = NoResult
  /\ cur = NoCur
  /\ lastPub = NoState
  /\ suppressed = FALSE
  /\ scn = "init"
  /\ trace = <<>>
  /\ delivered = <<>>
  /\ modifiers = {}
  /\ pressedKeys = [k \in HotkeyKeys |-> NotPressed]
  /\ keyEvent = NoKeyEvent
  /\ sent = <<>>
  /\ clock = 0
  /\ sigPending = FALSE
  /\ pendingAt = 0
  /\ lastToggleMs = 0
  /\ workerPc = "sleep"
  /\ wake = 0
  /\ httpPc = "idle"
  /\ issued = NoIssue
  /\ accepted = NoAccepted
  /\ registry = {}
  /\ files = <<>>
  /\ downloads = 0
  /\ mmpc = "idle"
  /\ pending = <<>>
  /\ mmResult = NoModelResult
  /\ mmScn = NoModelScn
  /\ calls = 0
  /\ devices = {}
  /\ selectedDevice = {}
  /\ stream = {}
  /\ built = 0
  /\ meter = 0
  /\ audResult = NoAudioResult
  /\ machine = Idle
  /\ stateEvents = <<>>
  /\ applied = NoApplied
  /\ clipText = {}
  /\ injLog = <<>>
  /\ injResult = NoInjectResult
  /\ dlDir = <<>>
  /\ dlInodes = <<>>
  /\ dlThr = [t \in DlThreads |-> NoDlThread]
  /\ bgDownloads = {}

\* out, reply, outcome and suppressed describe the step the runtime thread
\* has just taken; a step of another thread leaves them empty.  cur names the
\* command or edge being handled and the state it was taken in.
NoPulse ==
  /\ out' = <<>>
  /\ reply' = NoReply
  /\ outcome' = NoResult
  /\ suppressed' = FALSE
  /\ cur' = IF rtpc = "idle" THEN NoCur ELSE cur

(***************************************************************************)
(* Environment: command senders and the hotkey listener.                   *)
(***************************************************************************)
\* PttHandle::start / stop / set_hotkey / update_settings / set_active_model /
\* manual_toggle: the send on the command channel.
SubmitCommand(c) ==
  /\ Len(cmdQueue) < MaxQueue
  /\ cmdQueue' = Append(cmdQueue, c)
  /\ NoPulse
  /\ UNCHANGED <<ctlVars, lastPub, scnVars, allowGlobalHotkeys, bufferPoisoned,
                 hotkeyChan, rtpc, rtctx, work, cbpc, cbBlock, blockSeq>>
  /\ UNCHANGED sideVars

\* What HotkeyListenerHandle::join returns once the listener thread has ended
\* with the backend's error; ok while the thread is still running.
Join ==
  IF hotkeyChan # <<>> /\ hotkeyChan[Len(hotkeyChan)] = SenderDropped
    THEN [ok |-> FALSE, err |-> "Listener(listen failed)"]
    ELSE [ok |-> TRUE, err |-> ""]

\* The listener thread's sender.send of a resolved action edge.
KeyEdge(e) ==
  /\ hotkeyReceiver
  /\ Join.ok
  /\ Len(hotkeyChan) < MaxChan
  /\ hotkeyChan' = Append(hotkeyChan, e)
  /\ NoPulse
  /\ UNCHANGED <<ctlVars, lastPub, scnVars, allowGlobalHotkeys, bufferPoisoned,
                 cmdQueue, rtpc, rtctx, work, cbpc, cbBlock, blockSeq>>
  /\ UNCHANGED sideVars

(***************************************************************************)
(* Audio backend thread: the callback registered by                        *)
(* PttCaptureService::start.  The capture_active load and the locked       *)
(* append are two steps.  A block that finds capture_active false changes  *)
(* nothing.  blockSeq numbers the blocks that found capture_active true    *)
(* since the last Pressed edge; at most NumBlocks of them per press.       *)
(***************************************************************************)
CallbackBegin ==
  /\ audioRunning
  /\ cbpc = "idle"
  /\ captureActive
  /\ ~bufferPoisoned
  /\ blockSeq < NumBlocks
  /\ cbpc' = "append"
  /\ cbBlock' = [id |-> blockSeq + 1, stale |-> FALSE]
  /\ blockSeq' = blockSeq + 1
  /\ Observe("block_begin", <<>>, blockSeq + 1)
  /\ NoPulse
  /\ UNCHANGED <<ctlVars, lastPub, allowGlobalHotkeys, bufferPoisoned,
                 cmdQueue, hotkeyChan, rtpc, rtctx, work>>
  /\ UNCHANGED sideVars

CallbackAppend ==
  /\ cbpc = "append"
  /\ buffer' = Append(buffer, cbBlock)
  /\ cbpc' = "idle"
  /\ cbBlock' = NoBlock
  /\ Observe("block_append", <<>>, cbBlock.id)
  /\ UNCHANGED <<blockSeq, state, stateStore, armed, settings, activeModel, hotkey, bindings,
                 runtimeStarted, hotkeyReceiver, levelReceiver, captureActive,
                 audioRunning, overrides, lastPub, allowGlobalHotkeys,
                 bufferPoisoned, cmdQueue, hotkeyChan, rtpc, rtctx, work>>
  /\ NoPulse
  /\ UNCHANGED sideVars

\* A panic of the callback thread while it holds the buffer lock.  From then
\* on every lock() of the buffer mutex fails: the callback appends nothing
\* and the runtime thread gets BufferLockPoisoned, so the content of the
\* buffer is out of reach and is dropped here.
CallbackPanic ==
  /\ cbpc = "append"
  /\ ~bufferPoisoned
  /\ bufferPoisoned' = TRUE
  /\ buffer' = <<>>
  /\ cbpc' = "idle"
  /\ cbBlock' = NoBlock
  /\ blockSeq' = 0
  /\ Observe("panic", <<>>, 0)
  /\ NoPulse
  /\ UNCHANGED <<state, stateStore, armed, settings, activeModel, hotkey, bindings,
                 runtimeStarted, hotkeyReceiver, levelReceiver, captureActive,
                 audioRunning, overrides, lastPub, allowGlobalHotkeys,
                 cmdQueue, hotkeyChan, rtpc, rtctx, work>>
  /\ UNCHANGED sideVars

(***************************************************************************)
(* Runtime thread.                                                         *)
(***************************************************************************)
\* A Pressed edge that reaches the capture_active store starts a new press:
\* a block whose callback is still in flight belongs to an earlier one, and
\* the blocks of the new press are numbered from 1 again.
MarkInFlight(next) ==
  /\ cbBlock' = IF next = "press_clear" /\ cbpc = "append"
                  THEN [cbBlock EXCEPT !.stale = TRUE] ELSE cbBlock
  /\ blockSeq' = IF next = "press_clear" \/ ~captureActive' \/ bufferPoisoned
                   THEN 0 ELSE blockSeq

EdgeLabel(event, next) ==
  IF next = "press_clear" /\ event.state = "Pressed" THEN "pressed_edge"
  ELSE IF next = "rel_take" /\ event.state = "Released" THEN "released_edge"
  ELSE "other"

\* The match on the received command in the runtime loop.  The controller
\* after the handler is bound with \E over a singleton so that it is computed
\* once for the step.
HandleCommand(c) ==
  /\ \E s0 \in {Snapshot} :
        CASE c.kind = "Start" ->
               \E refreshOk \in BOOLEAN, startOk \in BOOLEAN :
                 \E s1 \in {Start(s0, c.mode, c.model, refreshOk, startOk)} :
                    /\ Commit(s1)
                    /\ reply' = Reply("Start", s1)
                    /\ Observe(IF s1.ok THEN "start_ok" ELSE "other", s1.out, 0)
                    /\ UNCHANGED <<rtpc, rtctx>>
                    /\ MarkInFlight("idle")
          [] c.kind = "Stop" ->
               \E s1 \in {Stop(s0)} :
                  /\ Commit(s1)
                  /\ reply' = Reply("Stop", s1)
                  /\ Observe("other", s1.out, 0)
                  /\ UNCHANGED <<rtpc, rtctx>>
                  /\ MarkInFlight("idle")
          [] c.kind = "SetHotkey" ->
               \E s1 \in {SetHotkey(s0, c.payload)} :
                  /\ Commit(s1)
                  /\ reply' = Reply("SetHotkey", s1)
                  /\ Observe("other", s1.out, 0)
                  /\ UNCHANGED <<rtpc, rtctx>>
                  /\ MarkInFlight("idle")
          [] c.kind = "UpdateSettings" ->
               \E s1 \in {UpdateSettings(s0, c.mode)} :
                  /\ Commit(s1)
                  /\ reply' = [NoReply EXCEPT !.kind = "UpdateSettings"]
                  /\ Observe("other", s1.out, 0)
                  /\ UNCHANGED <<rtpc, rtctx>>
                  /\ MarkInFlight("idle")
          [] c.kind = "SetActiveModel" ->
               \E s1 \in {SetActiveModel(s0, c.model)} :
                  /\ Commit(s1)
                  /\ reply' = [NoReply EXCEPT !.kind = "SetActiveModel"]
                  /\ Observe("other", s1.out, 0)
                  /\ UNCHANGED <<rtpc, rtctx>>
                  /\ MarkInFlight("idle")
          [] c.kind = "ManualToggle" ->
               \E refreshOk \in BOOLEAN, startOk \in BOOLEAN :
                 \E h \in {ManualToggleRecording(s0, refreshOk, startOk)} :
                    /\ Commit(h.s)
                    /\ reply' = IF h.next = "idle" THEN Reply("ManualToggle", h.s)
                                 ELSE NoReply
                    /\ rtpc' = h.next
                    /\ rtctx' = IF h.next = "idle" THEN rtctx ELSE "cmd"
                    /\ MarkInFlight(h.next)
                    /\ Observe("other", h.s.out, 0)
  /\ cur' = [kind |-> c.kind, state |-> state, armed |-> armed, payload |-> c.payload]
  /\ outcome' = NoResult
  /\ UNCHANGED <<allowGlobalHotkeys, bufferPoisoned, hotkeyChan, work, cbpc>>
  /\ UNCHANGED sideVars

\* recv_timeout returned a command that was waiting in the channel.
RecvCommand ==
  /\ rtpc = "idle"
  /\ cmdQueue # <<>>
  /\ cmdQueue' = Tail(cmdQueue)
  /\ HandleCommand(Head(cmdQueue))

\* recv_timeout returned a command that arrived while the thread waited.
\* It is handled at once: the order in which commands of different senders
\* are handled is the order of their arrival, which no sender controls, so
\* letting them wait in the channel adds no handling order.
ConfigCommand(c) ==
  /\ rtpc = "idle"
  /\ HandleCommand(c)
  /\ UNCHANGED cmdQueue

\* poll_hotkey_events: try_recv returned an edge.
PollHotkeyEvent ==
  /\ rtpc = "idle"
  /\ hotkeyReceiver
  /\ hotkeyChan # <<>>
  /\ Head(hotkeyChan) # SenderDropped
  /\ hotkeyChan' = Tail(hotkeyChan)
  /\ LET event == Head(hotkeyChan)
         h == HandleHotkeyAction(Snapshot, event)
     IN /\ Commit(h.s)
        /\ reply' = NoReply
        /\ rtpc' = h.next
        /\ rtctx' = "poll"
        /\ MarkInFlight(h.next)
        /\ Observe(EdgeLabel(event, h.next), h.s.out, 0)
        /\ cur' = [kind |-> event.state, state |-> state, armed |-> armed,
                    payload |-> NoPayload]
  /\ outcome' = NoResult
  /\ UNCHANGED <<allowGlobalHotkeys, bufferPoisoned, cmdQueue, work, cbpc>>
  /\ UNCHANGED sideVars

\* The keyboard backend fails: listen returns the error, the listener thread
\* ends with it and drops its sender.  Edges already sent stay receivable.
ListenerFails ==
  /\ hotkeyReceiver
  /\ Join.ok
  /\ hotkeyChan' = Append(hotkeyChan, SenderDropped)
  /\ NoPulse
  /\ UNCHANGED <<ctlVars, lastPub, scnVars, allowGlobalHotkeys, bufferPoisoned,
                 cmdQueue, rtpc, rtctx, work, cbpc, cbBlock, blockSeq>>
  /\ UNCHANGED sideVars

\* poll_hotkey_events that reports a disconnected channel as a runtime error.
PollDisconnected_EmitsError ==
  /\ rtpc = "idle"
  /\ hotkeyReceiver
  /\ hotkeyChan # <<>>
  /\ Head(hotkeyChan) = SenderDropped
  /\ Commit(EmitError([Snapshot EXCEPT !.hotkey_receiver = FALSE],
                      "Listener(listen failed)"))
  /\ reply' = NoReply
  /\ outcome' = NoResult
  /\ cur' = [NoCur EXCEPT !.kind = "Disconnected"]
  /\ Observe("other", <<>>, 0)
  /\ UNCHANGED <<allowGlobalHotkeys, bufferPoisoned, cmdQueue, hotkeyChan, rtpc,
                 rtctx, work, cbpc, cbBlock, blockSeq>>
  /\ UNCHANGED sideVars

\* poll_hotkey_events: try_recv returned Disconnected; the receiver is dropped
\* and the loop goes on with the command channel alone.
PollDisconnected ==
  /\ rtpc = "idle"
  /\ hotkeyReceiver
  /\ hotkeyChan # <<>>
  /\ Head(hotkeyChan) = SenderDropped
  /\ Commit([Snapshot EXCEPT !.hotkey_receiver = FALSE])
  /\ reply' = NoReply
  /\ outcome' = NoResult
  /\ cur' = [NoCur EXCEPT !.kind = "Disconnected"]
  /\ Observe("other", <<>>, 0)
  /\ UNCHANGED <<allowGlobalHotkeys, bufferPoisoned, cmdQueue, hotkeyChan, rtpc,
                 rtctx, work, cbpc, cbBlock, blockSeq>>
  /\ UNCHANGED sideVars

\* An Err of handle_hotkey_action: poll_hotkey_events reports it with
\* emit_error, manual_toggle_recording returns it to the caller.
EdgeFailed(s) ==
  LET s1 == IF rtctx = "poll" THEN EmitError([s EXCEPT !.ok = TRUE, !.err = ""], s.err)
            ELSE s
  IN /\ Commit(s1)
     /\ reply' = IF rtctx = "cmd" THEN Reply("ManualToggle", s) ELSE NoReply
     /\ rtpc' = "idle"
     /\ work' = NoWork
     /\ Observe("other", s1.out, 0)

\* Pressed edge, second segment: lock and clear the buffer, set Capturing.
PressClearStep ==
  /\ rtpc = "press_clear"
  /\ LET s1 == PressedClear(Snapshot)
     IN IF ~s1.ok THEN EdgeFailed(s1)
        ELSE /\ Commit(s1)
             /\ reply' = IF rtctx = "cmd" THEN Reply("ManualToggle", s1) ELSE NoReply
             /\ rtpc' = "idle"
             /\ work' = NoWork
             /\ Observe("pressed_done", s1.out, 0)
  /\ outcome' = NoResult
  /\ UNCHANGED <<allowGlobalHotkeys, bufferPoisoned, cmdQueue, hotkeyChan,
                 rtctx, cbpc, cbBlock, blockSeq, cur>>
  /\ UNCHANGED sideVars

\* Released edge, second segment: take_audio builds the TranscriptionWork.
RelTakeStep ==
  /\ rtpc = "rel_take"
  /\ LET s0 == Snapshot
         s1 == TakeAudio(s0)
     IN IF ~s1.ok THEN EdgeFailed(s1)
        ELSE /\ Commit(s1)
             /\ reply' = NoReply
             /\ rtpc' = "transcribing"
             /\ work' = [drained |-> s0.buffer, output_mode |-> s0.settings]
             /\ Observe("taken", s1.out, 0)
  /\ outcome' = NoResult
  /\ UNCHANGED <<allowGlobalHotkeys, bufferPoisoned, cmdQueue, hotkeyChan,
                 rtctx, cbpc, cbBlock, blockSeq, cur>>
  /\ UNCHANGED sideVars

\* The results the injectors can give for a transcription result: the
\* direct-write injector runs only for a non-empty text in direct_write mode,
\* the clipboard injector in clipboard mode and as the direct-write fallback.
TypeResults(mode, r) ==
  IF r.ok /\ r.text # <<>> /\ mode = "direct_write" THEN BOOLEAN ELSE {TRUE}
ClipResults(mode, r, typeOk) ==
  IF r.ok /\ r.text # <<>>
     /\ (mode = "clipboard" \/ (mode = "direct_write" /\ ~typeOk))
    THEN BOOLEAN ELSE {TRUE}

\* Released edge, last segment: the transcriber returns, then handle_output
\* and complete_transcription.
TranscribeStep ==
  /\ rtpc = "transcribing"
  /\ \E r \in TranscribeResults :
     \E typeOk \in TypeResults(work.output_mode, r) :
     \E clipOk \in ClipResults(work.output_mode, r, typeOk) :
       \E s1 \in {FinishWork(Snapshot, work, r, typeOk, clipOk)} :
          /\ Commit(s1)
          /\ reply' = IF rtctx = "cmd" THEN Reply("ManualToggle", s1) ELSE NoReply
          /\ Observe(IF r.ok /\ Trim(r.text) # <<>> THEN "text" ELSE "other",
                     s1.out, 0)
          /\ outcome' = [ok |-> r.ok, text |-> r.text, err |-> r.err,
                         typeOk |-> typeOk, clipOk |-> clipOk]
  /\ rtpc' = "idle"
  /\ work' = NoWork
  /\ UNCHANGED <<allowGlobalHotkeys, bufferPoisoned, cmdQueue, hotkeyChan,
                 rtctx, cbpc, cbBlock, blockSeq, cur>>
  /\ UNCHANGED sideVars

Next ==
  \/ \E c \in Commands : SubmitCommand(c)
  \/ \E e \in HotkeyActionEvents : KeyEdge(e)
  \/ CallbackBegin
  \/ CallbackAppend
  \/ RecvCommand
  \/ PollHotkeyEvent
  \/ PressClearStep
  \/ RelTakeStep
  \/ TranscribeStep

Spec == Init /\ [][Next]_vars

\* The same runtime with a callback panic under the buffer lock injected,
\* which leaves the capture-buffer mutex poisoned.
NextFault == Next \/ CallbackPanic

SpecFault == Init /\ [][NextFault]_vars

\* The runtime thread taking every command as it arrives, the configuration
\* commands included, with no hotkey edge and no sample block: neither is
\* read by the handlers of the configuration commands.
NextConfig ==
  \/ \E c \in Commands \cup ConfigCommands : ConfigCommand(c)
  \/ PressClearStep
  \/ RelTakeStep
  \/ TranscribeStep

SpecConfig == Init /\ [][NextConfig]_vars

\* The runtime thread alone with its two channels, for what the thread
\* eventually does: the sample callback changes only the capture buffer,
\* which no branch of the runtime thread reads.  The loop never ends: it
\* takes a waiting command at the top of every iteration, every segment of a
\* handler runs to its end, and the synchronous transcriber call returns.
\* The listener thread may end with a backend error at any time.
NextLive ==
  \/ \E c \in Commands : SubmitCommand(c)
  \/ \E e \in HotkeyActionEvents : KeyEdge(e)
  \/ RecvCommand
  \/ PollHotkeyEvent
  \/ ListenerFails
  \/ PollDisconnected
  \/ PressClearStep
  \/ RelTakeStep
  \/ TranscribeStep

SpecLive ==
  /\ Init
  /\ [][NextLive]_vars
  /\ SF_vars(RecvCommand)
  /\ WF_vars(PressClearStep)
  /\ WF_vars(RelTakeStep)
  /\ WF_vars(TranscribeStep)

(***************************************************************************)
(* PttCaptureService used on its own by one caller, the way its unit tests *)
(* drive it: start, hotkey edges, sample blocks pushed through the         *)
(* callback, take_audio, stop, one call after the other.  A block is the   *)
(* sample value it carries.  svcScn follows the sequence Pressed, blocks,  *)
(* Released, blocks, take_audio, take_audio from any Pressed edge on;      *)
(* delivered collects the blocks pushed between the edges and work holds   *)
(* what the last take_audio returned.                                      *)
(***************************************************************************)
\* The sample callback without the capture_active check.
Callback_NoActiveCheck(s, b) ==
  IF ~s.poisoned THEN [s EXCEPT !.buffer = Append(@, [id |-> b, stale |-> FALSE])]
  ELSE s

\* The sample callback of PttCaptureService::start, run whole.
Callback(s, b) ==
  IF s.capture_active
    THEN IF ~s.poisoned
           THEN [s EXCEPT !.buffer = Append(@, [id |-> b, stale |-> FALSE])]
           ELSE s
    ELSE s

\* PttCaptureService::handle_hotkey_action
CaptureHandleHotkeyAction(s, event) ==
  IF event.action # "ptt" THEN s
  ELSE IF event.state = "Pressed"
    THEN LET s1 == [s EXCEPT !.capture_active = TRUE]
         IN IF s1.poisoned THEN Fail(s1, BufferLockPoisoned)
            ELSE [s1 EXCEPT !.buffer = <<>>]
    ELSE [s EXCEPT !.capture_active = FALSE]

SvcScn(label) ==
  CASE label = "Pressed" -> "pressed"
    [] scn = "pressed" /\ label = "block" -> "pressed"
    [] scn = "pressed" /\ label = "Released" -> "released"
    [] scn \in {"released", "released_s2"} /\ label = "block" -> "released_s2"
    [] scn = "released" /\ label = "take" -> "taken"
    [] scn = "released_s2" /\ label = "take" -> "taken_s2"
    [] scn = "taken" /\ label = "take" -> "done"
    [] scn = "taken_s2" /\ label = "take" -> "done_s2"
    [] OTHER -> "off"

SvcCommit(s, label, block, taken) ==
  /\ captureActive' = s.capture_active
  /\ buffer' = s.buffer
  /\ audioRunning' = s.audio_running
  /\ work' = [NoWork EXCEPT !.drained = taken]
  /\ scn' = SvcScn(label)
  /\ delivered' = CASE label = "Pressed" -> <<>>
                    [] SvcScn(label) = "off" -> <<>>
                    [] scn = "pressed" /\ label = "block" -> Append(delivered, block)
                    [] OTHER -> delivered
  /\ UNCHANGED <<state, stateStore, armed, settings, activeModel, hotkey, bindings,
                 runtimeStarted, hotkeyReceiver, levelReceiver, allowGlobalHotkeys,
                 bufferPoisoned, overrides, cmdQueue, hotkeyChan, rtpc, rtctx,
                 cbpc, cbBlock, blockSeq, out, reply, outcome, cur, lastPub,
                 suppressed, trace, sideVars>>

SvcStart ==
  /\ ~audioRunning
  /\ \E startOk \in BOOLEAN :
       SvcCommit(CaptureStart(Snapshot, startOk), "start", 0, <<>>)

SvcStop ==
  /\ audioRunning
  /\ SvcCommit(CaptureStop(Snapshot), "stop", 0, <<>>)

SvcEdge(e) ==
  SvcCommit(CaptureHandleHotkeyAction(Snapshot, e), e.state, 0, <<>>)

\* MockStreamController::push_samples: the callback runs only while the
\* stream is running.
SvcBlock(b) ==
  /\ audioRunning
  /\ captureActive => Len(buffer) < NumBlocks
  /\ SvcCommit(Callback(Snapshot, b), "block", b, <<>>)

SvcTake ==
  /\ TakeAudio(Snapshot).ok
  /\ SvcCommit(TakeAudio(Snapshot), "take", 0, buffer)

NextCapture ==
  \/ SvcStart
  \/ SvcStop
  \/ \E e \in HotkeyActionEvents : SvcEdge(e)
  \/ \E b \in 1..NumBlocks : SvcBlock(b)
  \/ SvcTake

SpecCapture == Init /\ [][NextCapture]_vars

(***************************************************************************)
(* The hotkey manager and the listener thread of spawn_listener.  Each     *)
(* call of the listener's handler is one step: it holds the manager lock   *)
(* for the resolve.  sent is what the call handed to the edge channel.     *)
(* Registrations come from the owner of the manager, between handler       *)
(* calls.  The observer follows two key sequences from their first press   *)
(* on: trace starts with the hotkey the sequence is about and collects     *)
(* the edges sent along it.                                                *)
(***************************************************************************)
\* trigger_matches
TriggerMatches(trigger, st) ==
  \/ (trigger = "Pressed" /\ st = "Pressed")
  \/ (trigger = "Released" /\ st = "Released")

\* resolve that ignores the modifier set of the event.
Resolve_AnyModifiers(b, event) ==
  LET m == {x \in b : x.hotkey.key = event.key /\ TriggerMatches(x.trigger, event.state)}
  IN IF m = {} THEN NoAction ELSE (CHOOSE x \in m : TRUE).action

\* HotkeyManager::resolve
Resolve(b, event) ==
  LET hk == [key |-> event.key, mods |-> event.mods]
      m == {x \in b : x.hotkey = hk /\ TriggerMatches(x.trigger, event.state)}
  IN IF m = {} THEN NoAction ELSE (CHOOSE x \in m : TRUE).action

\* A listener that takes no key for a modifier.
ModifierOf_Ignored(key) == "none"

\* ModifierState::update: the modifier a key stands for.
ModifierOf(key) == IF key = "ControlLeft" THEN "ctrl" ELSE "none"

\* map_key
MapKey(key) == IF key \in HotkeyKeys THEN key ELSE Unsupported

HotkeyEvent(key, mods, st) == [key |-> key, mods |-> mods, state |-> st]

\* The resolve under the manager lock and the send of the handler.
ResolveAndSend(l, b, event) ==
  IF Resolve(b, event) = NoAction THEN l
  ELSE [l EXCEPT !.sent = <<[action |-> Resolve(b, event),
                             hotkey |-> [key |-> event.key, mods |-> event.mods],
                             state |-> event.state]>>]

\* Handler whose KeyPress branch does not look at pressed_keys.
HandleKeyPress_NoDedup(l, b, key) ==
  IF ModifierOf(key) # "none"
    THEN [l EXCEPT !.modifiers = @ \cup {ModifierOf(key)}]
  ELSE IF MapKey(key) = Unsupported THEN l
  ELSE ResolveAndSend([l EXCEPT !.pressed_keys[MapKey(key)] =
                                  [held |-> TRUE, mods |-> l.modifiers]],
                      b, HotkeyEvent(MapKey(key), l.modifiers, "Pressed"))

\* spawn_listener handler, KeyPress branch
HandleKeyPress(l, b, key) ==
  IF ModifierOf(key) # "none"
    THEN [l EXCEPT !.modifiers = @ \cup {ModifierOf(key)}]
  ELSE IF MapKey(key) = Unsupported THEN l
  ELSE IF l.pressed_keys[MapKey(key)] = [held |-> TRUE, mods |-> l.modifiers] THEN l
  ELSE ResolveAndSend([l EXCEPT !.pressed_keys[MapKey(key)] =
                                  [held |-> TRUE, mods |-> l.modifiers]],
                      b, HotkeyEvent(MapKey(key), l.modifiers, "Pressed"))

\* spawn_listener handler, KeyRelease branch
HandleKeyRelease(l, b, key) ==
  LET l1 == IF ModifierOf(key) # "none"
              THEN [l EXCEPT !.modifiers = @ \ {ModifierOf(key)}] ELSE l
  IN IF MapKey(key) = Unsupported THEN l1
     ELSE IF ~l1.pressed_keys[MapKey(key)].held THEN l1
     ELSE ResolveAndSend([l1 EXCEPT !.pressed_keys[MapKey(key)] = NotPressed],
                         b, HotkeyEvent(MapKey(key), l1.modifiers, "Released"))

\* Hotkeys, triggers and actions the owner of the manager registers.
RegHotkeys == {[key |-> "F9", mods |-> NoMods], [key |-> "F9", mods |-> {"ctrl"}]}
Triggers == {"Pressed", "Released"}

TriggersOf(b, hk) == {x.trigger : x \in {y \in b : y.hotkey = hk}}

\* The position in the two key sequences after a handler call.
LsnScn(type, key) ==
  LET k == MapKey(key)
      hk == [key |-> k, mods |-> modifiers]
      fresh == k # Unsupported /\ ~pressedKeys[k].held
  IN CASE type = "KeyPress" /\ k # Unsupported
          /\ pressedKeys[k] # [held |-> TRUE, mods |-> modifiers]
          /\ TriggersOf(bindings, hk) = Triggers
            -> "dedup_p1"
       [] type = "KeyPress" /\ scn = "dedup_p1" /\ k = trace[1].hotkey.key
            -> "dedup_p2"
       [] type = "KeyRelease" /\ scn = "dedup_p2" /\ k = trace[1].hotkey.key
            -> "dedup_r"
       [] type = "KeyPress" /\ fresh /\ modifiers = NoMods
          /\ TriggersOf(bindings, hk) = {"Pressed"}
          /\ TriggersOf(bindings, [key |-> k, mods |-> {"ctrl"}]) = {"Pressed"}
            -> "variant_1"
       [] type = "KeyPress" /\ scn = "variant_1" /\ key = "ControlLeft"
            -> "variant_2"
       [] type = "KeyPress" /\ scn = "variant_2" /\ k = trace[1].hotkey.key
            -> "variant_3"
       [] type = "KeyRelease" /\ scn = "variant_3" /\ k = trace[1].hotkey.key
            -> "variant_4"
       [] type = "KeyRelease" /\ scn = "variant_4" /\ key = "ControlLeft"
            -> "variant_5"
       [] type = "KeyRelease" /\ scn = "dedup_p1" /\ ModifierOf(key) # "none"
            -> "mod_up"
       [] type = "KeyRelease" /\ scn = "mod_up" /\ k = trace[1].hotkey.key
            -> "mod_up_r"
       [] OTHER -> "off"

lsnFrame == <<state, stateStore, armed, settings, activeModel, hotkey,
              runtimeStarted, hotkeyReceiver, levelReceiver, allowGlobalHotkeys,
              captureActive, buffer, bufferPoisoned, audioRunning, overrides,
              cmdQueue, hotkeyChan, rtpc, rtctx, work, cbpc, cbBlock, blockSeq,
              out, reply, outcome, cur, lastPub, suppressed, delivered>>

LsnCommit(l, type, key) ==
  /\ modifiers' = l.modifiers
  /\ pressedKeys' = l.pressed_keys
  /\ sent' = l.sent
  /\ keyEvent' = [type |-> type, key |-> key]
  /\ scn' = LsnScn(type, key)
  /\ trace' = CASE LsnScn(type, key) = "off" -> <<>>
                 [] LsnScn(type, key) \in {"dedup_p1", "variant_1"}
                      -> <<[action |-> "", state |-> "subject",
                            hotkey |-> [key |-> MapKey(key), mods |-> modifiers]]>>
                           \o l.sent
                 [] OTHER -> trace \o l.sent
  /\ UNCHANGED <<bindings, lsnFrame, sigVars, mmVars, audVars, extVars>>

\* The listener thread's locals before a handler call.
Listener == [modifiers |-> modifiers, pressed_keys |-> pressedKeys, sent |-> <<>>]

KeyPress(key) == LsnCommit(HandleKeyPress(Listener, bindings, key), "KeyPress", key)

KeyRelease(key) == LsnCommit(HandleKeyRelease(Listener, bindings, key), "KeyRelease", key)

ManagerCommit(b) ==
  /\ bindings' = b
  /\ keyEvent' = NoKeyEvent
  /\ sent' = <<>>
  /\ scn' = "off"
  /\ trace' = <<>>
  /\ UNCHANGED <<modifiers, pressedKeys, lsnFrame, sigVars, mmVars, audVars, extVars>>

ManagerRegister(hk, trigger, action) ==
  ManagerCommit(RegisterWithTrigger(bindings, hk, trigger, action))

ManagerUnregister(hk) ==
  ManagerCommit(Unregister(bindings, hk))

NextListener ==
  \/ \E key \in RawKeys : KeyPress(key)
  \/ \E key \in RawKeys : KeyRelease(key)
  \/ \E hk \in RegHotkeys, trigger \in Triggers, action \in {"ptt", "other"} :
       ManagerRegister(hk, trigger, action)
  \/ \E hk \in RegHotkeys \cup {DefaultHotkey} : ManagerUnregister(hk)

SpecListener == Init /\ [][NextListener]_vars

(***************************************************************************)
(* The manual-toggle side channels: the SIGUSR1 thread, the signal worker  *)
(* and the control server.  The clock counts poll periods.  A sleeping     *)
(* worker polls when its sleep ends; a worker or server thread inside      *)
(* PttHandle::manual_toggle is blocked until the runtime replies, however  *)
(* long that takes.  issued is the command the last step sent; accepted    *)
(* remembers when the last accepted signal request arrived and when the    *)
(* last command of either path was sent.  Wall-clock time starts one       *)
(* debounce window after LAST_TOGGLE_MS = 0, as any time since the epoch   *)
(* does, so the first request is never debounced.                          *)
(***************************************************************************)
NowMs == DebounceMs + clock * PollMs

sigFrame == <<state, stateStore, armed, settings, activeModel, hotkey, bindings,
              runtimeStarted, hotkeyReceiver, levelReceiver, allowGlobalHotkeys,
              captureActive, buffer, bufferPoisoned, audioRunning, overrides,
              cmdQueue, hotkeyChan, rtpc, rtctx, work, cbpc, cbBlock, blockSeq,
              out, reply, outcome, cur, lastPub, suppressed, scn, trace,
              delivered, lsnVars, mmVars, audVars, extVars>>

\* The SIGUSR1 thread: SIG_TOGGLE_PENDING.store(true).
Signal ==
  /\ sigPending' = TRUE
  /\ pendingAt' = clock
  /\ issued' = NoIssue
  /\ UNCHANGED <<clock, lastToggleMs, workerPc, wake, httpPc, accepted, sigFrame>>

\* One iteration of the worker loop up to the send of manual_toggle.
WorkerPoll ==
  /\ workerPc = "sleep"
  /\ clock = wake
  /\ sigPending' = FALSE
  /\ IF sigPending /\ ~(NowMs - lastToggleMs < DebounceMs)
       THEN /\ lastToggleMs' = NowMs
            /\ workerPc' = "blocked"
            /\ issued' = [by |-> "signal", arrived |-> pendingAt]
            /\ accepted' = [sig |-> TRUE, sigArrived |-> pendingAt,
                            any |-> TRUE, anyAt |-> clock]
            /\ UNCHANGED wake
       ELSE /\ wake' = clock + 1
            /\ issued' = NoIssue
            /\ UNCHANGED <<lastToggleMs, workerPc, accepted>>
  /\ UNCHANGED <<clock, pendingAt, httpPc, sigFrame>>

\* The runtime's reply reaches the worker, which then sleeps.
WorkerReturns ==
  /\ workerPc = "blocked"
  /\ workerPc' = "sleep"
  /\ wake' = clock + 1
  /\ issued' = NoIssue
  /\ UNCHANGED <<clock, sigPending, pendingAt, lastToggleMs, httpPc, accepted,
                 sigFrame>>

\* control_server: a /toggle request is taken and manual_toggle sent.
HttpToggle ==
  /\ httpPc = "idle"
  /\ httpPc' = "blocked"
  /\ issued' = [by |-> "http", arrived |-> clock]
  /\ accepted' = [accepted EXCEPT !.any = TRUE, !.anyAt = clock]
  /\ UNCHANGED <<clock, sigPending, pendingAt, lastToggleMs, workerPc, wake,
                 sigFrame>>

\* The runtime's reply reaches the control server, which responds.
HttpReturns ==
  /\ httpPc = "blocked"
  /\ httpPc' = "idle"
  /\ issued' = NoIssue
  /\ UNCHANGED <<clock, sigPending, pendingAt, lastToggleMs, workerPc, wake,
                 accepted, sigFrame>>

\* A poll period passes; a sleeping worker does not oversleep.
Tick ==
  /\ clock < MaxTicks
  /\ workerPc = "sleep" => clock < wake
  /\ clock' = clock + 1
  /\ issued' = NoIssue
  /\ UNCHANGED <<sigPending, pendingAt, lastToggleMs, workerPc, wake, httpPc,
                 accepted, sigFrame>>

NextSignal ==
  \/ Signal
  \/ WorkerPoll
  \/ WorkerReturns
  \/ HttpToggle
  \/ HttpReturns
  \/ Tick

SpecSignal == Init /\ [][NextSignal]_vars

(***************************************************************************)
(* ModelManager with at most one registered model, its cache directory and *)
(* a downloader, used by one caller.  A path is written as its filename    *)
(* under root; files maps the paths that exist to their bytes.             *)
(* ensure_model_cached is cut at its writes to the directory: File::create *)
(* of the temp file, write_all, rename.  mmResult is what the last call    *)
(* returned; mmScn counts the ensure_model_cached calls that have          *)
(* succeeded one after the other, whether the first of them found the file *)
(* valid, and the downloads made before them.                              *)
(***************************************************************************)
\* validate_model_filename without the ParentDir component check.
ValidateModelFilename_NoParentCheck(filename) ==
  filename # <<>> /\ filename[1] # "/"

\* validate_model_filename: not empty, not absolute, no ".." component.
ValidateModelFilename(filename) ==
  /\ filename # <<>>
  /\ filename[1] # "/"
  /\ ~\E i \in 1..(Len(filename) - 1) :
        /\ filename[i] = "."
        /\ filename[i + 1] = "."
        /\ (i = 1 \/ filename[i - 1] = "/")
        /\ (i + 1 = Len(filename) \/ filename[i + 2] = "/")

\* path.with_extension("download"): the extension of the file name, what
\* follows its last dot that is not its first character, is replaced.
TmpPath(path) ==
  LET dots == {i \in 2..Len(path) : /\ path[i] = "."
                                     /\ path[i - 1] # "/"
                                     /\ \A k \in i..Len(path) : path[k] # "/"}
      last == CHOOSE i \in dots : \A j \in dots : j <= i
      stem == IF dots = {} THEN path ELSE SubSeq(path, 1, last - 1)
  IN stem \o <<".", "d", "o", "w", "n", "l", "o", "a", "d">>

\* sha256_hex: lower-case hex of the digest, taken as collision free.
Sha256Hex(bytes) == [of |-> bytes, upper |-> FALSE]

\* verify_model_bytes that compares the checksum before the size.
VerifyModelBytes_ChecksumFirst(spec, bytes) ==
  IF \E expected \in spec.sha256 : expected.of # Sha256Hex(bytes).of
    THEN "ChecksumMismatch"
  ELSE IF \E expected \in spec.size_bytes : Len(bytes) # expected
    THEN "SizeMismatch"
  ELSE "ok"

\* verify_model_bytes
VerifyModelBytes(spec, bytes) ==
  IF \E expected \in spec.size_bytes : Len(bytes) # expected
    THEN "SizeMismatch"
  ELSE IF \E expected \in spec.sha256 : expected.of # Sha256Hex(bytes).of
    THEN "ChecksumMismatch"
  ELSE "ok"

\* verify_model_file; io names the call that fails with an I/O error.
VerifyModelFile(fs, path, spec, io) ==
  IF path \notin DOMAIN fs THEN "MissingFile"
  ELSE IF io = "metadata" THEN "Io"
  ELSE IF \E expected \in spec.size_bytes : Len(fs[path]) # expected
    THEN "SizeMismatch"
  ELSE IF spec.sha256 # {} /\ io = "read" THEN "Io"
  ELSE IF \E expected \in spec.sha256 : expected.of # Sha256Hex(fs[path]).of
    THEN "ChecksumMismatch"
  ELSE "ok"

\* File::create followed by write_all of bytes, or a rename's target.
WriteFile(fs, path, bytes) ==
  [q \in DOMAIN fs \cup {path} |-> IF q = path THEN bytes ELSE fs[q]]

\* registry.get(id), then validate_model_filename: the head of every call.
Lookup(reg) ==
  IF reg = {} THEN "UnregisteredModel"
  ELSE IF \E spec \in reg : ~ValidateModelFilename(spec.filename)
    THEN "InvalidFilename"
  ELSE "ok"

\* ModelManager::model_path and ensure_model_available
Query(op, fs, reg, io) ==
  IF Lookup(reg) # "ok" \/ op = "model_path" THEN Lookup(reg)
  ELSE LET spec == CHOOSE x \in reg : TRUE
       IN VerifyModelFile(fs, spec.filename, spec, io)

\* ensure_model_cached that downloads again after an I/O error of the
\* verification.
EnsureModelCached_DownloadsOnIo(fs, reg, io, dl, createOk) ==
  LET done(err, d) ==
        [files |-> fs, err |-> err, downloaded |-> d, pc |-> "idle", pending |-> <<>>]
  IN IF Lookup(reg) # "ok" THEN done(Lookup(reg), FALSE)
     ELSE LET spec == CHOOSE x \in reg : TRUE
              v == VerifyModelFile(fs, spec.filename, spec, io)
          IN IF v = "ok" THEN done("ok", FALSE)
             ELSE IF spec.download_url = {} THEN done("MissingDownloadUrl", FALSE)
             ELSE IF ~dl.ok THEN done("DownloadFailed", TRUE)
             ELSE IF VerifyModelBytes(spec, dl.bytes) # "ok"
               THEN done(VerifyModelBytes(spec, dl.bytes), TRUE)
             ELSE IF ~createOk THEN done("Io", TRUE)
             ELSE [files |-> WriteFile(fs, TmpPath(spec.filename), <<>>),
                   err |-> "ok", downloaded |-> TRUE, pc |-> "created",
                   pending |-> dl.bytes]

\* ensure_model_cached up to and including File::create of the temp file.
EnsureModelCached(fs, reg, io, dl, createOk) ==
  LET done(err, d) ==
        [files |-> fs, err |-> err, downloaded |-> d, pc |-> "idle", pending |-> <<>>]
  IN IF Lookup(reg) # "ok" THEN done(Lookup(reg), FALSE)
     ELSE LET spec == CHOOSE x \in reg : TRUE
              v == VerifyModelFile(fs, spec.filename, spec, io)
          IN IF v = "ok" THEN done("ok", FALSE)
             ELSE IF v = "Io" THEN done("Io", FALSE)
             ELSE IF spec.download_url = {} THEN done("MissingDownloadUrl", FALSE)
             ELSE IF ~dl.ok THEN done("DownloadFailed", TRUE)
             ELSE IF VerifyModelBytes(spec, dl.bytes) # "ok"
               THEN done(VerifyModelBytes(spec, dl.bytes), TRUE)
             ELSE IF ~createOk THEN done("Io", TRUE)
             ELSE [files |-> WriteFile(fs, TmpPath(spec.filename), <<>>),
                   err |-> "ok", downloaded |-> TRUE, pc |-> "created",
                   pending |-> dl.bytes]

\* What a call returned, whether it invoked the downloader, and the bytes the
\* downloader gave it.
ModelResult(op, err, d, bytes) ==
  [op |-> op, ok |-> (err = "ok"), err |-> IF err = "ok" THEN "" ELSE err,
   downloaded |-> d, bytes |-> bytes]

mmFrame == <<ctlVars, allowGlobalHotkeys, bufferPoisoned, cmdQueue, hotkeyChan,
             rtpc, rtctx, work, cbpc, cbBlock, blockSeq, out, reply, outcome,
             cur, lastPub, suppressed, scnVars, lsnVars, sigVars, audVars, extVars>>

\* ModelManager::register_model
RegisterModel(spec) ==
  /\ registry = {}
  /\ registry' = {spec}
  /\ mmResult' = NoModelResult
  /\ UNCHANGED <<files, downloads, mmpc, pending, mmScn, calls, mmFrame>>

\* A call of model_path or ensure_model_available.
QueryStep(op) ==
  /\ mmpc = "idle"
  /\ \E io \in {"ok", "metadata", "read"} :
       mmResult' = ModelResult(op, Query(op, files, registry, io), FALSE, <<>>)
  /\ UNCHANGED <<registry, files, downloads, mmpc, pending, mmScn, calls, mmFrame>>

\* ModelManager::write_model_bytes
WriteModelBytes(bytes) ==
  /\ mmpc = "idle"
  /\ calls < MaxCalls
  /\ calls' = calls + 1
  /\ files' = IF Lookup(registry) # "ok" THEN files
              ELSE WriteFile(files, (CHOOSE x \in registry : TRUE).filename, bytes)
  /\ mmResult' = ModelResult("write_model_bytes", Lookup(registry), FALSE, <<>>)
  /\ mmScn' = NoModelScn
  /\ UNCHANGED <<registry, downloads, mmpc, pending, mmFrame>>

\* A call of ensure_model_cached: it returns, or it has created the temp file.
EnsureCachedStep ==
  /\ mmpc = "idle"
  /\ calls < MaxCalls
  /\ calls' = calls + 1
  /\ \E io \in {"ok", "metadata", "read"}, dl \in DownloadResults,
        createOk \in BOOLEAN :
       \E m \in {EnsureModelCached(files, registry, io, dl, createOk)} :
         LET scn0 == IF mmScn.n = 0
                       THEN [n |-> 0, hit |-> ~m.downloaded, base |-> downloads]
                       ELSE mmScn
         IN /\ files' = m.files
            /\ downloads' = downloads + (IF m.downloaded THEN 1 ELSE 0)
            /\ mmpc' = m.pc
            /\ pending' = m.pending
            /\ mmResult' = IF m.pc = "idle"
                             THEN ModelResult("ensure_model_cached", m.err,
                                              m.downloaded,
                                              IF m.downloaded THEN dl.bytes ELSE <<>>)
                             ELSE [NoModelResult EXCEPT !.downloaded = TRUE,
                                                        !.bytes = dl.bytes]
            /\ mmScn' = IF m.pc # "idle" THEN scn0
                        ELSE IF m.err = "ok" THEN [scn0 EXCEPT !.n = @ + 1]
                        ELSE NoModelScn
  /\ UNCHANGED <<registry, mmFrame>>

\* file.write_all(&bytes): all of the bytes, or an error after some of them.
InstallWrite ==
  /\ mmpc = "created"
  /\ \E k \in 0..Len(pending) :
       /\ files' = WriteFile(files, TmpPath((CHOOSE x \in registry : TRUE).filename),
                             SubSeq(pending, 1, k))
       /\ mmpc' = IF k = Len(pending) THEN "written" ELSE "idle"
       /\ pending' = IF k = Len(pending) THEN pending ELSE <<>>
       /\ mmResult' = IF k = Len(pending) THEN NoModelResult
                      ELSE ModelResult("ensure_model_cached", "Io", FALSE, <<>>)
       /\ mmScn' = IF k = Len(pending) THEN mmScn ELSE NoModelScn
  /\ UNCHANGED <<registry, downloads, calls, mmFrame>>

\* ensure_model_cached whose rename leaves the bytes in the temp file.
InstallRename_KeepsTmp ==
  /\ mmpc = "written"
  /\ mmpc' = "idle"
  /\ pending' = <<>>
  /\ mmResult' = ModelResult("ensure_model_cached", "ok", FALSE, <<>>)
  /\ mmScn' = [mmScn EXCEPT !.n = @ + 1]
  /\ UNCHANGED <<registry, files, downloads, calls, mmFrame>>

\* std::fs::rename(&tmp_path, &path), then Ok(path).
InstallRename ==
  /\ mmpc = "written"
  /\ \E renameOk \in BOOLEAN :
       LET path == (CHOOSE x \in registry : TRUE).filename
           tmp == TmpPath(path)
       IN /\ files' = IF ~renameOk \/ tmp = path THEN files
                      ELSE [q \in (DOMAIN files \cup {path}) \ {tmp} |->
                              IF q = path THEN files[tmp] ELSE files[q]]
          /\ mmResult' = ModelResult("ensure_model_cached",
                                     IF renameOk THEN "ok" ELSE "Io", FALSE, <<>>)
          /\ mmScn' = IF renameOk THEN [mmScn EXCEPT !.n = @ + 1] ELSE NoModelScn
  /\ mmpc' = "idle"
  /\ pending' = <<>>
  /\ UNCHANGED <<registry, downloads, calls, mmFrame>>

NextModel ==
  \/ \E spec \in ModelSpecs : RegisterModel(spec)
  \/ \E op \in {"model_path", "ensure_model_available"} : QueryStep(op)
  \/ \E bytes \in Payloads : WriteModelBytes(bytes)
  \/ EnsureCachedStep
  \/ InstallWrite
  \/ InstallRename

SpecModel == Init /\ [][NextModel]_vars

(***************************************************************************)
(* AudioCaptureService over a backend whose calls can fail.  A service is  *)
(* the record of its fields; stream is the Option holding the stream the   *)
(* backend built, named by the order in which it was built, and meter is 1 *)
(* when the level meter's last reading has a peak above zero.              *)
(***************************************************************************)
AudioSnapshot ==
  [devices |-> devices, selected_device |-> selectedDevice,
   stream |-> stream, meter |-> meter]

\* AudioCaptureService::is_running
IsRunning(a) == a.stream # {}

\* AudioCaptureService::refresh_devices
RefreshDevices(a, listOk, list) ==
  IF listOk THEN [svc |-> [a EXCEPT !.devices = list], err |-> "ok"]
  ELSE [svc |-> a, err |-> "Backend"]

\* AudioCaptureService::select_device
SelectDevice(a, id) ==
  IF id \in a.devices
    THEN [svc |-> [a EXCEPT !.selected_device = {id}], err |-> "ok"]
  ELSE [svc |-> a, err |-> "DeviceNotFound"]

\* start_internal without its test of self.stream.
StartInternal_NoRunningCheck(a, id, def, buildOk, playOk) ==
  IF a.selected_device = {} /\ ~def.ok
    THEN [svc |-> a, err |-> "Backend", built |-> FALSE]
  ELSE IF a.selected_device = {} /\ def.device = {}
    THEN [svc |-> a, err |-> "NoInputDevice", built |-> FALSE]
  ELSE LET device == IF a.selected_device # {} THEN a.selected_device
                     ELSE def.device
       IN IF ~buildOk THEN [svc |-> a, err |-> "Backend", built |-> FALSE]
          ELSE LET a1 == [a EXCEPT !.meter = 0]
               IN IF ~playOk THEN [svc |-> a1, err |-> "Backend", built |-> TRUE]
                  ELSE [svc |-> [a1 EXCEPT !.selected_device = device,
                                           !.stream = {id}],
                        err |-> "ok", built |-> TRUE]

\* AudioCaptureService::start_internal.  def is the answer of
\* default_input_device, asked only when no device is selected; id names the
\* stream build_input_stream returns.
StartInternal(a, id, def, buildOk, playOk) ==
  IF a.stream # {} THEN [svc |-> a, err |-> "AlreadyRunning", built |-> FALSE]
  ELSE IF a.selected_device = {} /\ ~def.ok
    THEN [svc |-> a, err |-> "Backend", built |-> FALSE]
  ELSE IF a.selected_device = {} /\ def.device = {}
    THEN [svc |-> a, err |-> "NoInputDevice", built |-> FALSE]
  ELSE LET device == IF a.selected_device # {} THEN a.selected_device
                     ELSE def.device
       IN IF ~buildOk THEN [svc |-> a, err |-> "Backend", built |-> FALSE]
          ELSE LET a1 == [a EXCEPT !.meter = 0]
               IN IF ~playOk THEN [svc |-> a1, err |-> "Backend", built |-> TRUE]
                  ELSE [svc |-> [a1 EXCEPT !.selected_device = device,
                                           !.stream = {id}],
                        err |-> "ok", built |-> TRUE]

\* AudioCaptureService::stop: the stream is taken before it is paused.
AudioCaptureStop(a, pauseOk) ==
  IF a.stream = {} THEN [svc |-> a, err |-> "NotRunning"]
  ELSE [svc |-> [a EXCEPT !.stream = {}],
        err |-> IF pauseOk THEN "ok" ELSE "Backend"]

audFrame == <<ctlVars, allowGlobalHotkeys, bufferPoisoned, cmdQueue, hotkeyChan,
              rtpc, rtctx, work, cbpc, cbBlock, blockSeq, out, reply, outcome,
              cur, lastPub, suppressed, scnVars, lsnVars, sigVars, mmVars, extVars>>

AudCommit(r, op) ==
  /\ devices' = r.svc.devices
  /\ selectedDevice' = r.svc.selected_device
  /\ stream' = r.svc.stream
  /\ meter' = r.svc.meter
  /\ audResult' = [op |-> op, err |-> r.err]
  /\ UNCHANGED audFrame

AudRefresh ==
  /\ \E listOk \in BOOLEAN, list \in SUBSET AudioDevices :
       AudCommit(RefreshDevices(AudioSnapshot, listOk, list), "refresh_devices")
  /\ UNCHANGED built

AudSelect(id) ==
  /\ AudCommit(SelectDevice(AudioSnapshot, id), "select_device")
  /\ UNCHANGED built

AudStart ==
  /\ built < MaxStreams
  /\ \E def \in [ok : BOOLEAN, device : {{}} \cup {{d} : d \in AudioDevices}],
        buildOk \in BOOLEAN, playOk \in BOOLEAN :
       \E r \in {StartInternal(AudioSnapshot, built + 1, def, buildOk, playOk)} :
         /\ AudCommit(r, "start")
         /\ built' = IF r.built THEN built + 1 ELSE built

AudStop ==
  /\ \E pauseOk \in BOOLEAN :
       AudCommit(AudioCaptureStop(AudioSnapshot, pauseOk), "stop")
  /\ UNCHANGED built

\* The running stream's data callback: meter.update(samples).
AudSamples(peak) ==
  /\ IsRunning(AudioSnapshot)
  /\ AudCommit([svc |-> [AudioSnapshot EXCEPT !.meter = peak], err |-> "ok"],
               "samples")
  /\ UNCHANGED built

NextAudio ==
  \/ AudRefresh
  \/ \E id \in AudioDevices : AudSelect(id)
  \/ AudStart
  \/ AudStop
  \/ \E peak \in {0, 1} : AudSamples(peak)

SpecAudio == Init /\ [][NextAudio]_vars

(***************************************************************************)
(* BackendOrchestrator: the backend state machine and its emitter.  An     *)
(* error string is kept as the pair it is formatted from.                  *)
(***************************************************************************)
\* apply that moves to Idle on an event the state does not accept.
Apply_InvalidResets(st, event) ==
  LET go(next) == [ok |-> TRUE, state |-> next, err |-> <<>>]
  IN CASE st = Idle /\ event.tag = "StartRecording" -> go(Recording)
       [] st = Idle /\ event.tag = "StartProcessing" -> go(Processing)
       [] st = Recording /\ event.tag = "StopRecording" -> go(Processing)
       [] st = Processing /\ event.tag = "FinishProcessing" -> go(Idle)
       [] event.tag = "Fail" -> go(Error(event.message))
       [] event.tag = "Reset" -> go(Idle)
       [] OTHER -> go(Idle)

\* StateMachine::apply: the result and, in state, the machine's state after
\* the call.
Apply(st, event) ==
  LET go(next) == [ok |-> TRUE, state |-> next, err |-> <<>>]
  IN CASE st = Idle /\ event.tag = "StartRecording" -> go(Recording)
       [] st = Idle /\ event.tag = "StartProcessing" -> go(Processing)
       [] st = Recording /\ event.tag = "StopRecording" -> go(Processing)
       [] st = Processing /\ event.tag = "FinishProcessing" -> go(Idle)
       [] event.tag = "Fail" -> go(Error(event.message))
       [] event.tag = "Reset" -> go(Idle)
       [] OTHER -> [ok |-> FALSE, state |-> st,
                    err |-> <<"invalid transition", st, event>>]

beFrame == <<ctlVars, allowGlobalHotkeys, bufferPoisoned, cmdQueue, hotkeyChan,
             rtpc, rtctx, work, cbpc, cbBlock, blockSeq, out, reply, outcome,
             cur, lastPub, suppressed, scnVars, lsnVars, sigVars, mmVars,
             audVars, injVars, dlVars, bgDownloads>>

\* BackendOrchestrator::apply_event
ApplyEvent(event) ==
  /\ Len(stateEvents) < MaxEmits
  /\ \E r \in {Apply(machine, event)} :
       /\ machine' = r.state
       /\ stateEvents' = IF r.ok THEN Append(stateEvents, r.state) ELSE stateEvents
       /\ applied' = [event |-> event.tag, ok |-> r.ok,
                      state |-> IF r.ok THEN r.state ELSE NoState,
                      err |-> r.err]
  /\ UNCHANGED beFrame

NextBackend == \E event \in BackendEvents : ApplyEvent(event)

SpecBackend == Init /\ [][NextBackend]_vars

(***************************************************************************)
(* Injector::inject_text over a clipboard and a typer whose calls can      *)
(* fail.  The clipboard is the Option of its text; a call that fails       *)
(* leaves it as it was.  log lists the calls made on the two devices, in   *)
(* order, each with its argument and whether it succeeded.                 *)
(***************************************************************************)
Call(op, arg, ok) == [op |-> op, arg |-> arg, ok |-> ok]

\* restore_clipboard: set_text(previous), or clear when there was none.
RestoreClipboard(cb, previous, ok) ==
  [cb |-> IF ok THEN previous ELSE cb,
   call |-> Call(IF previous = {} THEN "clear" ELSE "set_text", previous, ok)]

\* restore_outcome
RestoreOutcome(ok) == IF ok THEN "Restored" ELSE "Failed"

\* Injector::typing_fallback_with_restore: type, then restore.
TypingFallbackWithRestore(cb, log, text, previous, f) ==
  LET r == RestoreClipboard(cb, previous, f.restore)
  IN [cb |-> r.cb,
      log |-> log \o <<Call("type_text", {text}, f.type), r.call>>,
      result |-> IF f.type
                   THEN [ok |-> TRUE, outcome |-> "TypedFallback",
                         restore |-> RestoreOutcome(f.restore), err |-> ""]
                 ELSE [ok |-> FALSE, outcome |-> "", restore |-> "",
                       err |-> "Typing"]]

\* Injector::typing_fallback_after_restore: the restore was made by the caller.
TypingFallbackAfterRestore(cb, log, text, f) ==
  [cb |-> cb,
   log |-> Append(log, Call("type_text", {text}, f.type)),
   result |-> IF f.type
                THEN [ok |-> TRUE, outcome |-> "TypedFallback",
                      restore |-> RestoreOutcome(f.restore), err |-> ""]
              ELSE [ok |-> FALSE, outcome |-> "", restore |-> "",
                    err |-> "Typing"]]

\* inject_text that types right after a failed set_text, without restoring.
InjectText_NoRestoreAfterSet(cb, text, f) ==
  LET get == <<Call("get_text", cb, f.get)>>
  IN IF ~f.get
       THEN [cb |-> cb,
             log |-> Append(get, Call("type_text", {text}, f.type)),
             result |-> IF f.type
                          THEN [ok |-> TRUE, outcome |-> "TypedFallback",
                                restore |-> "NotAttempted", err |-> ""]
                        ELSE [ok |-> FALSE, outcome |-> "", restore |-> "",
                              err |-> "Typing"]]
     ELSE IF ~f.set
       THEN TypingFallbackAfterRestore(
              cb, Append(get, Call("set_text", {text}, FALSE)), text, f)
     ELSE LET set == Append(get, Call("set_text", {text}, TRUE))
          IN IF f.paste
               THEN LET r == RestoreClipboard({text}, cb, f.restore)
                    IN [cb |-> r.cb,
                        log |-> set \o <<Call("paste", {}, TRUE), r.call>>,
                        result |-> [ok |-> TRUE, outcome |-> "Clipboard",
                                    restore |-> RestoreOutcome(f.restore),
                                    err |-> ""]]
             ELSE TypingFallbackWithRestore(
                    {text}, Append(set, Call("paste", {}, FALSE)), text, cb, f)

\* Injector::inject_text.  f says which of the device calls succeed.
InjectText(cb, text, f) ==
  LET get == <<Call("get_text", cb, f.get)>>
  IN IF ~f.get
       THEN [cb |-> cb,
             log |-> Append(get, Call("type_text", {text}, f.type)),
             result |-> IF f.type
                          THEN [ok |-> TRUE, outcome |-> "TypedFallback",
                                restore |-> "NotAttempted", err |-> ""]
                        ELSE [ok |-> FALSE, outcome |-> "", restore |-> "",
                              err |-> "Typing"]]
     ELSE IF ~f.set
       THEN LET r == RestoreClipboard(cb, cb, f.restore)
            IN TypingFallbackAfterRestore(
                 r.cb, get \o <<Call("set_text", {text}, FALSE), r.call>>,
                 text, f)
     ELSE LET set == Append(get, Call("set_text", {text}, TRUE))
          IN IF f.paste
               THEN LET r == RestoreClipboard({text}, cb, f.restore)
                    IN [cb |-> r.cb,
                        log |-> set \o <<Call("paste", {}, TRUE), r.call>>,
                        result |-> [ok |-> TRUE, outcome |-> "Clipboard",
                                    restore |-> RestoreOutcome(f.restore),
                                    err |-> ""]]
             ELSE TypingFallbackWithRestore(
                    {text}, Append(set, Call("paste", {}, FALSE)), text, cb, f)

injFrame == <<ctlVars, allowGlobalHotkeys, bufferPoisoned, cmdQueue, hotkeyChan,
              rtpc, rtctx, work, cbpc, cbBlock, blockSeq, out, reply, outcome,
              cur, lastPub, suppressed, scnVars, lsnVars, sigVars, mmVars,
              audVars, beVars, dlVars, bgDownloads>>

\* Another program puts text on the clipboard, or empties it.
UserCopies(value) ==
  /\ clipText' = value
  /\ injLog' = <<>>
  /\ injResult' = NoInjectResult
  /\ UNCHANGED injFrame

InjectStep(text) ==
  /\ \E f \in InjectFaults :
       \E r \in {InjectText(clipText, text, f)} :
         /\ clipText' = r.cb
         /\ injLog' = r.log
         /\ injResult' = r.result
  /\ UNCHANGED injFrame

NextInject ==
  \/ \E value \in {{}} \cup {{x} : x \in ClipTexts} : UserCopies(value)
  \/ \E text \in ClipTexts : InjectStep(text)

SpecInject == Init /\ [][NextInject]_vars

(***************************************************************************)
(* Two ipc_model_download threads fetching the same model into the same    *)
(* directory, each with a ModelManager of its own.  The directory maps the *)
(* paths that exist to files and dlInodes maps a file to its bytes: an     *)
(* open handle keeps writing to its file after the path was renamed, and   *)
(* File::create of an existing path truncates the file it names.           *)
(* ensure_model_cached is cut at its calls on the directory and at the     *)
(* download.                                                               *)
(***************************************************************************)
\* What the paths hold, as verify_model_file reads it.
DirView == [q \in DOMAIN dlDir |-> dlInodes[dlDir[q]]]

DlPath == DlSpec.filename

\* The files a path or an open handle still refers to.
LiveInodes(dir, thr) ==
  ({dir[q] : q \in DOMAIN dir} \cup {thr[t].handle : t \in DlThreads}) \ {0}

Collect(dir, ino, thr) == [i \in LiveInodes(dir, thr) |-> ino[i]]

dlFrame == <<ctlVars, allowGlobalHotkeys, bufferPoisoned, cmdQueue, hotkeyChan,
             rtpc, rtctx, work, cbpc, cbBlock, blockSeq, out, reply, outcome,
             cur, lastPub, suppressed, scnVars, lsnVars, sigVars, mmVars,
             audVars, beVars, injVars, bgDownloads>>

DlCommit(t, dir, ino, th) ==
  LET thr == [dlThr EXCEPT ![t] = th]
  IN /\ dlThr' = thr
     /\ dlDir' = dir
     /\ dlInodes' = Collect(dir, ino, thr)
     /\ UNCHANGED dlFrame

DlReturn(t, err) ==
  DlCommit(t, dlDir, dlInodes, [NoDlThread EXCEPT !.pc = "done", !.result = err])

\* verify_model_file(&path, spec) at the head of ensure_model_cached.
DlVerify(t) ==
  /\ dlThr[t].pc = "idle"
  /\ \E io \in {"ok", "metadata"} :
       \E v \in {VerifyModelFile(DirView, DlPath, DlSpec, io)} :
         IF v \in {"ok", "Io"} THEN DlReturn(t, v)
         ELSE DlCommit(t, dlDir, dlInodes, [dlThr[t] EXCEPT !.pc = "download"])

\* downloader.download(url)?; verify_model_bytes(spec, &bytes)?
DlDownload(t) ==
  /\ dlThr[t].pc = "download"
  /\ \E dl \in DownloadResults :
       IF ~dl.ok THEN DlReturn(t, "DownloadFailed")
       ELSE IF VerifyModelBytes(DlSpec, dl.bytes) # "ok"
         THEN DlReturn(t, VerifyModelBytes(DlSpec, dl.bytes))
       ELSE DlCommit(t, dlDir, dlInodes,
                     [dlThr[t] EXCEPT !.pc = "create", !.bytes = dl.bytes])

\* File::create(&tmp_path)?
DlCreate(t) ==
  /\ dlThr[t].pc = "create"
  /\ \E createOk \in BOOLEAN :
       IF ~createOk THEN DlReturn(t, "Io")
       ELSE LET tmp == TmpPath(DlPath)
                fresh == CHOOSE i \in 1..4 : i \notin DOMAIN dlInodes
                i == IF tmp \in DOMAIN dlDir THEN dlDir[tmp] ELSE fresh
            IN DlCommit(t,
                 [q \in DOMAIN dlDir \cup {tmp} |-> IF q = tmp THEN i ELSE dlDir[q]],
                 [j \in DOMAIN dlInodes \cup {i} |-> IF j = i THEN <<>> ELSE dlInodes[j]],
                 [dlThr[t] EXCEPT !.pc = "write", !.handle = i])

\* file.write_all(&bytes)?: the bytes go to the file of the handle, from its
\* start, all of them or an error after some of them.
DlWrite(t) ==
  /\ dlThr[t].pc = "write"
  /\ \E k \in 0..Len(dlThr[t].bytes) :
       LET i == dlThr[t].handle
           old == dlInodes[i]
           new == SubSeq(dlThr[t].bytes, 1, k)
                    \o (IF Len(old) > k THEN SubSeq(old, k + 1, Len(old)) ELSE <<>>)
           ino == [dlInodes EXCEPT ![i] = new]
       IN IF k < Len(dlThr[t].bytes)
            THEN DlCommit(t, dlDir, ino,
                          [NoDlThread EXCEPT !.pc = "done", !.result = "Io"])
          ELSE DlCommit(t, dlDir, ino, [dlThr[t] EXCEPT !.pc = "rename"])

\* std::fs::rename(&tmp_path, &path)?; Ok(path).  The rename fails when the
\* temp path is gone.
DlRename(t) ==
  /\ dlThr[t].pc = "rename"
  /\ LET tmp == TmpPath(DlPath)
     IN IF tmp \notin DOMAIN dlDir THEN DlReturn(t, "Io")
        ELSE DlCommit(t,
               [q \in (DOMAIN dlDir \cup {DlPath}) \ {tmp} |->
                  IF q = DlPath THEN dlDir[tmp] ELSE dlDir[q]],
               dlInodes,
               [NoDlThread EXCEPT !.pc = "done", !.result = "ok"])

\* The thread ends; a later request starts another one.
DlExit(t) ==
  /\ dlThr[t].pc = "done"
  /\ DlCommit(t, dlDir, dlInodes, NoDlThread)

NextDownload ==
  \E t \in DlThreads :
    \/ DlVerify(t)
    \/ DlDownload(t)
    \/ DlCreate(t)
    \/ DlWrite(t)
    \/ DlRename(t)
    \/ DlExit(t)

SpecDownload == Init /\ [][NextDownload]_vars

(***************************************************************************)
(* ipc_model_download next to the runtime thread.  Both write the status   *)
(* overrides of the one ModelStore, each under its lock.  bgDownloads      *)
(* holds the models whose download thread has not finished.                *)
(***************************************************************************)
bgFrame == <<state, stateStore, armed, settings, activeModel, hotkey, bindings,
             runtimeStarted, hotkeyReceiver, levelReceiver, captureActive,
             buffer, audioRunning, lastPub, scnVars, allowGlobalHotkeys,
             bufferPoisoned, cmdQueue, hotkeyChan, rtpc, rtctx, work, cbpc,
             cbBlock, blockSeq, lsnVars, sigVars, mmVars, audVars, beVars,
             injVars, dlVars>>

\* ipc_model_download up to the spawn of the download thread.
IpcModelDownload(m) ==
  /\ m \notin bgDownloads
  /\ overrides' = [overrides EXCEPT ![m] = "Downloading"]
  /\ bgDownloads' = bgDownloads \cup {m}
  /\ NoPulse
  /\ UNCHANGED bgFrame

\* The download thread after ensure_model_cached returned.
DownloadThreadEnds(m, ok) ==
  /\ m \in bgDownloads
  /\ overrides' = [overrides EXCEPT ![m] = IF ok THEN NoOverride ELSE "Failed"]
  /\ bgDownloads' = bgDownloads \ {m}
  /\ NoPulse
  /\ UNCHANGED bgFrame

NextOverride ==
  \/ NextConfig
  \/ \E m \in ModelNames : IpcModelDownload(m)
  \/ \E m \in ModelNames, ok \in BOOLEAN : DownloadThreadEnds(m, ok)

SpecOverride == Init /\ [][NextOverride]_vars

(***************************************************************************)
(* Properties.  A runtime step that takes a command is recognised by the   *)
(* command queue losing its head, one that takes a hotkey edge by the edge *)
(* channel losing its head.                                                *)
(***************************************************************************)

\* C1: between handling steps, once a ptt_state event has been published, the
\* controller's state and the state store both equal the payload of the last
\* published ptt_state event.
C1_StateIsLastPublished ==
  (rtpc = "idle" /\ lastPub # NoState) => (state = lastPub /\ stateStore = lastPub)

C1_Witness ==
  /\ rtpc = "idle"
  /\ cur.kind = "Released"
  /\ cur.state = Capturing
  /\ lastPub = Armed
  /\ state = Armed
  /\ stateStore = Armed

\* C2: the runtime never latches in a failure: whenever no handling is in
\* progress the state is neither Error nor Processing, whatever failed before.
C2_NeverLatchedInFailure ==
  rtpc = "idle" => state.tag \notin {"Error", "Processing"}

\* C3: a "ptt" Pressed edge polled while armed and Capturing is handled as a
\* Released edge: capture_active is cleared, the state becomes Processing, the
\* buffer is left for take_audio, which then moves it whole into the work item;
\* it is never handled as the start of a capture.
C3_PressedWhileCapturingIsRelease ==
  /\ [][(/\ rtpc = "idle"
         /\ hotkeyChan # <<>>
         /\ hotkeyChan' = Tail(hotkeyChan)
         /\ Head(hotkeyChan) = [action |-> "ptt", state |-> "Pressed"]
         /\ armed
         /\ state = Capturing)
        => (/\ rtpc' = "rel_take"
            /\ ~captureActive'
            /\ state' = Processing
            /\ buffer' = buffer)]_vars
  /\ [][(rtpc = "rel_take" /\ rtpc' # "rel_take")
        => (/\ rtpc' = "transcribing"
            /\ work'.drained = buffer
            /\ buffer' = <<>>
            /\ state' = Processing)]_vars

C3_Witness ==
  /\ cur.kind = "Pressed"
  /\ cur.state = Capturing
  /\ rtpc = "transcribing"
  /\ Len(work.drained) > 0
  /\ ~captureActive
  /\ state = Processing

\* C4: every sample in the buffer drained for a press was appended by a
\* callback that read capture_active during that same press.
C4_OnlyThisPressSamples ==
  rtpc = "transcribing" => \A i \in 1..Len(work.drained) : ~work.drained[i].stale

\* C5: from the handling of Released until the transcription completes the
\* state, the state store and the last published state are Processing, and
\* no command or hotkey edge is taken in that interval: pending ones stay
\* queued, so none of them starts a capture.
C5_ProcessingUntilCompletion ==
  /\ [](rtpc \in {"rel_take", "transcribing"}
        => (state = Processing /\ stateStore = Processing /\ lastPub = Processing))
  /\ [][(rtpc \in {"rel_take", "transcribing"})
        => (/\ Len(cmdQueue') >= Len(cmdQueue)
            /\ Len(hotkeyChan') >= Len(hotkeyChan)
            /\ state' # Capturing
            /\ ~captureActive')]_vars

C5_Witness ==
  /\ rtpc = "transcribing"
  /\ state = Processing
  /\ cmdQueue # <<>>
  /\ Head(cmdQueue).kind = "ManualToggle"
  /\ hotkeyChan # <<>>
  /\ Head(hotkeyChan).state = "Pressed"


\* C6: a manual_toggle call that returns Ok leaves the runtime armed and
\* Capturing when it was taken not armed (Idle) or in Armed, and, when it was
\* taken in Capturing, has ended the capture and run the transcription and
\* leaves the runtime in Armed; the reply carries that state.
C6_ManualToggleOutcome ==
  /\ [](~armed => state = Idle)
  /\ []((rtpc = "idle" /\ reply.kind = "ManualToggle" /\ reply.ok
         /\ cur.kind = "ManualToggle")
        => /\ reply.state = state
           /\ ~cur.armed => (armed /\ state = Capturing /\ captureActive)
           /\ cur.state = Armed => (state = Capturing /\ captureActive)
           /\ cur.state = Capturing
                => /\ state = Armed
                   /\ ~captureActive
                   /\ outcome # NoResult
                   /\ \E i \in 1..Len(out) :
                        out[i].name \in {"ptt_transcription", "ptt_error"})

C6_Witness ==
  /\ rtpc = "idle"
  /\ reply.kind = "ManualToggle"
  /\ reply.ok
  /\ cur.kind = "ManualToggle"
  /\ cur.state = Capturing
  /\ state = Armed
  /\ outcome.ok

\* C7: a manual_toggle taken while the state is Processing replies
\* Ok(Processing), changes neither the state, the state store, the armed flag,
\* capture_active nor the capture buffer, and publishes no event.
C7_ToggleInProcessingIsNoOp ==
  [][(/\ rtpc = "idle"
      /\ cmdQueue # <<>>
      /\ cmdQueue' = Tail(cmdQueue)
      /\ Head(cmdQueue).kind = "ManualToggle"
      /\ state = Processing)
     => (/\ reply' = [kind |-> "ManualToggle", ok |-> TRUE,
                      state |-> Processing, err |-> ""]
         /\ out' = <<>>
         /\ rtpc' = "idle"
         /\ UNCHANGED <<state, stateStore, lastPub, armed, captureActive, buffer,
                        audioRunning, settings, activeModel>>)]_vars

C7_Witness ==
  /\ reply.kind = "ManualToggle"
  /\ cur.kind = "ManualToggle"
  /\ cur.state = Processing
  /\ rtpc = "idle"
  /\ state = Processing

\* C8: no step publishes a ptt_state event equal to the ptt_state event
\* published before it: the first one of a step differs from the last
\* published state, and no two consecutive ones of a step are equal.
C8_NoRepeatedStateEvent ==
  [][LET st == SelectSeq(out', LAMBDA ev : ev.name = "ptt_state")
     IN /\ Len(st) > 0 => st[1].state # lastPub
        /\ \A i \in 1..(Len(st) - 1) : st[i].state # st[i + 1].state
        /\ Len(st) > 0 => lastPub' = st[Len(st)].state
        /\ Len(st) = 0 => lastPub' = lastPub]_vars

C8_Witness ==
  /\ suppressed
  /\ reply.kind = "Stop"
  /\ cur.state = Idle
  /\ SelectSeq(out, LAMBDA ev : ev.name = "ptt_state") = <<>>

\* C9: in the scenario run from Idle (a successful start, a Pressed edge,
\* sample blocks, a Released edge, a transcriber returning text that is not
\* empty after trimming) the published ptt_state events are Armed, Capturing,
\* Processing, Armed, exactly one ptt_transcription is published, before the
\* last Armed and carrying the transcriber's text as returned, and the
\* drained buffer holds exactly the blocks delivered between the two edges,
\* in order.
C9_ScenarioS1 ==
  /\ (scn = "released" /\ rtpc = "transcribing")
       => [i \in 1..Len(work.drained) |-> work.drained[i].id] = delivered
  /\ scn = "done"
       => /\ SelectSeq(trace, LAMBDA ev : ev.name = "ptt_state")
               = <<StateEvent(Armed), StateEvent(Capturing), StateEvent(Processing),
                   StateEvent(Armed)>>
          /\ Len(SelectSeq(trace, LAMBDA ev : ev.name = "ptt_transcription")) = 1
          /\ trace[4].name = "ptt_transcription"
          /\ state = Armed
  /\ (scn = "done" /\ outcome # NoResult)
       => /\ outcome.ok
          /\ trace[4] = TranscriptionEvent(outcome.text)

C9_Witness ==
  /\ scn = "done"
  /\ Len(delivered) = 2
  /\ outcome.text = <<" ", "o", "k">>
  /\ state = Armed

\* C10: stop succeeds from every state and leaves the state Idle, the armed
\* flag false, the audio stream not running and capture_active false.
C10_StopAlwaysIdle ==
  reply.kind = "Stop"
    => /\ reply.ok
       /\ reply.state = Idle
       /\ state = Idle
       /\ stateStore = Idle
       /\ ~armed
       /\ ~audioRunning
       /\ ~captureActive

C10_Witness ==
  /\ reply.kind = "Stop"
  /\ cur.kind = "Stop"
  /\ cur.state = Capturing
  /\ state = Idle
  /\ ~audioRunning

\* C11: a stop waiting in the command channel while a transcription is in
\* progress does not cancel it: the stop stays in the channel until the
\* transcription has completed, the completing step publishes a
\* ptt_transcription or a ptt_error event, and afterwards the stop is
\* handled and the runtime is Idle.
StopPending ==
  \E i \in 1..Len(cmdQueue) : cmdQueue[i].kind = "Stop"

C12_TakeAudioReturnsPress ==
  /\ [](scn \in {"taken", "taken_s2"}
          => /\ [i \in 1..Len(work.drained) |-> work.drained[i].id] = delivered
             /\ buffer = <<>>)
  /\ [](scn \in {"done", "done_s2"} => (work.drained = <<>> /\ buffer = <<>>))
  /\ [][~captureActive => (buffer' = buffer \/ buffer' = <<>>)]_vars
  /\ [](scn = "released_s2" => Len(buffer) = Len(delivered))

C12_Witness ==
  /\ scn = "done_s2"
  /\ Len(delivered) = 2
  /\ work.drained = <<>>
  /\ audioRunning

\* C13: for a hotkey H bound on both triggers, Press H, Press H with the same
\* modifier set sends exactly one Pressed edge, and the Release H after them
\* sends exactly one Released edge; a release of a key that is not tracked
\* as pressed sends nothing.
C13_ListenerDedup ==
  /\ [](scn = "dedup_p1"
          => (Len(trace) = 2 /\ sent = <<trace[2]>> /\ trace[2].state = "Pressed"
              /\ trace[2].hotkey = trace[1].hotkey))
  /\ [](scn = "dedup_p2" => (Len(trace) = 2 /\ sent = <<>>))
  /\ [](scn = "dedup_r"
          => (Len(trace) = 3 /\ sent = <<trace[3]>> /\ trace[3].state = "Released"
              /\ trace[3].hotkey = trace[1].hotkey /\ trace[2].state = "Pressed"))
  /\ [][(/\ keyEvent'.type = "KeyRelease"
         /\ MapKey(keyEvent'.key) # Unsupported
         /\ ~pressedKeys[MapKey(keyEvent'.key)].held)
        => (sent' = <<>> /\ pressedKeys' = pressedKeys)]_vars

C13_Witness ==
  /\ scn = "dedup_r"
  /\ trace[1].hotkey = [key |-> "F9", mods |-> {"ctrl"}]
  /\ Len(trace) = 3

\* C14: with plain K and Ctrl+K each registered on the Pressed trigger only,
\* Press K, Press Ctrl, Press K, Release K, Release Ctrl sends exactly two
\* edges, the plain binding's and then the ctrl binding's; a press or release
\* of a modifier key sends nothing.
C14_ModifierVariants ==
  /\ (scn \in {"variant_1", "variant_2", "variant_3", "variant_4", "variant_5"}
        => /\ Len(trace) >= 2
           /\ trace[2].state = "Pressed"
           /\ trace[2].hotkey = [key |-> trace[1].hotkey.key, mods |-> NoMods]
           /\ \E x \in bindings : /\ x.hotkey = trace[2].hotkey
                                  /\ x.trigger = "Pressed"
                                  /\ x.action = trace[2].action)
  /\ (scn \in {"variant_1", "variant_2"} => Len(trace) = 2)
  /\ (scn \in {"variant_3", "variant_4", "variant_5"}
        => /\ Len(trace) = 3
           /\ trace[3].state = "Pressed"
           /\ trace[3].hotkey = [key |-> trace[1].hotkey.key, mods |-> {"ctrl"}]
           /\ \E x \in bindings : /\ x.hotkey = trace[3].hotkey
                                  /\ x.trigger = "Pressed"
                                  /\ x.action = trace[3].action)
  /\ (scn \in {"variant_2", "variant_4", "variant_5"} => sent = <<>>)
  /\ (ModifierOf(keyEvent.key) # "none" => sent = <<>>)

C14_Witness ==
  /\ scn = "variant_5"
  /\ trace[2].action = "ptt"
  /\ trace[3].action = "other"
  /\ modifiers = NoMods

\* C16: for every binding (H, T, A) of the manager and every event, resolve
\* returns A when the event's key and modifier set equal H's and its state
\* matches T, and, when that binding is the only one, returns nothing for
\* every other event.
ResolveEvents ==
  {HotkeyEvent(k, m, st) : k \in HotkeyKeys, m \in SUBSET {"ctrl", "alt"}, st \in Triggers}

C16_ResolveExact ==
  \A x \in bindings : \A e \in ResolveEvents :
    LET match == /\ e.key = x.hotkey.key
                 /\ e.mods = x.hotkey.mods
                 /\ e.state = x.trigger
    IN /\ match => Resolve(bindings, e) = x.action
       /\ (bindings = {x} /\ ~match) => Resolve(bindings, e) = NoAction

C16_Witness ==
  /\ Cardinality(bindings) = 1
  /\ sent # <<>>
  /\ sent[1].action = "other"
  /\ sent[1].state = "Released"
  /\ sent[1].hotkey.mods = {"ctrl"}

\* C15: whatever set_hotkey calls were handled, the manager binds exactly the
\* controller's current hotkey, on the Pressed and the Released trigger with
\* action "ptt", and no event of another hotkey resolves; the current hotkey
\* changes only in an accepted set_hotkey, to the hotkey of its payload; a
\* payload with an unsupported key is rejected with an error and leaves the
\* bindings and the current hotkey as they were.
C15_OneHotkeyBound ==
  /\ [](bindings = {[hotkey |-> hotkey, trigger |-> tr, action |-> "ptt"] :
                      tr \in Triggers})
  /\ [](\A e \in ResolveEvents :
          Resolve(bindings, e) = IF [key |-> e.key, mods |-> e.mods] = hotkey
                                   THEN "ptt" ELSE NoAction)
  /\ []((reply.kind = "SetHotkey" /\ reply.ok)
        => hotkey = [key |-> ParseHotkeyKey(cur.payload.key), mods |-> cur.payload.mods])
  /\ [][(reply'.kind = "SetHotkey" /\ ParseHotkeyKey(cur'.payload.key) = Unsupported)
        => (~reply'.ok /\ reply'.err = UnsupportedKey
            /\ UNCHANGED <<bindings, hotkey>>)]_vars
  /\ [][hotkey' # hotkey => (reply'.kind = "SetHotkey" /\ reply'.ok)]_vars

C15_Witness ==
  /\ reply.kind = "SetHotkey"
  /\ ~reply.ok
  /\ hotkey = [key |-> "F9", mods |-> {"ctrl"}]
  /\ Resolve(bindings, HotkeyEvent("Space", {"ctrl", "alt"}, "Pressed")) = NoAction

\* C17: on the signal path a request that arrives less than 400 ms after the
\* previous accepted request is dropped and one that arrives 400 ms or more
\* after it is issued as a manual_toggle command, however long the runtime
\* takes over the accepted toggle.
C17_SignalDebounce ==
  [][(sigPending /\ ~sigPending' /\ accepted.sig)
       => IF (pendingAt - accepted.sigArrived) * PollMs < DebounceMs
            THEN issued' = NoIssue
            ELSE issued'.by = "signal"]_vars

\* C18: a /toggle request that arrives within 400 ms of the previous
\* accepted toggle issues no manual_toggle command.
C18_HttpDebounce ==
  [][(issued'.by = "http" /\ accepted.any)
       => (issued'.arrived - accepted.anyAt) * PollMs >= DebounceMs]_vars

\* C19: when the transcriber returns text that is empty after trimming,
\* whitespace-only text included, the runtime publishes ptt_error "no speech
\* detected", publishes no ptt_transcription, writes nothing to the clipboard,
\* types nothing, and ends in Armed or Idle.
C19_BlankTextNoDispatch ==
  (outcome # NoResult /\ outcome.ok /\ Trim(outcome.text) = <<>>)
    => /\ \E i \in 1..Len(out) : out[i] = ErrorEvent(NoSpeech)
       /\ \A i \in 1..Len(out) :
            out[i].name \notin {"ptt_transcription", "os_clipboard", "os_typed"}
       /\ state \in {Armed, Idle}

\* C20: with output_mode = direct_write and a failing direct-write helper, a
\* transcription that is not blank is copied to the clipboard (when the
\* clipboard takes it), a ptt_error with the direct-write warning is
\* published, ptt_transcription is published with the full text, and the
\* runtime ends in Armed or Idle with no Error state published.
C20_DirectWriteFallback ==
  [][(rtpc = "transcribing" /\ rtpc' = "idle" /\ work.output_mode = "direct_write"
      /\ outcome'.ok /\ Trim(outcome'.text) # <<>> /\ ~outcome'.typeOk)
       => /\ outcome'.clipOk
               => \E i \in 1..Len(out') : out'[i] = ClipboardWrite(outcome'.text)
          /\ \A i \in 1..Len(out') : out'[i].name # "os_typed"
          /\ \E i \in 1..Len(out') : out'[i] = ErrorEvent(DirectWriteFailed)
          /\ \E i \in 1..Len(out') : out'[i] = TranscriptionEvent(outcome'.text)
          /\ \A i \in 1..Len(out') : out'[i].state.tag # "Error"
          /\ state' = ArmedOrIdle(Snapshot)]_vars

C20_Witness ==
  /\ rtpc = "idle"
  /\ outcome.ok
  /\ ~outcome.typeOk
  /\ outcome.clipOk
  /\ Trim(outcome.text) # <<>>
  /\ \E i \in 1..Len(out) : out[i] = ClipboardWrite(outcome.text)
  /\ \E i \in 1..Len(out) : out[i] = ErrorEvent(DirectWriteFailed)
  /\ state = Armed

\* C21: for the active model M the runtime sets M's override to Downloading
\* when it enters Processing, removes it when the transcription succeeds and
\* sets it to Failed when the transcription fails, each time publishing a
\* model-download-status snapshot that shows the change; once a transcription
\* has completed M's override is not Downloading.
C21_ModelOverrideLifecycle ==
  /\ [][(state # Processing /\ state' = Processing /\ activeModel # NoModel)
        => /\ overrides'[activeModel] = "Downloading"
           /\ \E i \in 1..Len(out') :
                out'[i] = ModelStatusEvent(activeModel, overrides')]_vars
  /\ [][(rtpc = "transcribing" /\ rtpc' = "idle" /\ activeModel # NoModel)
        => /\ activeModel' = activeModel
           /\ overrides'[activeModel] = IF outcome'.ok THEN NoOverride ELSE "Failed"
           /\ \E i \in 1..Len(out') :
                out'[i] = ModelStatusEvent(activeModel, overrides')]_vars
  /\ [](rtpc = "idle" => \A m \in ModelNames : overrides[m] # "Downloading")

C21_Witness ==
  /\ rtpc = "idle"
  /\ outcome # NoResult
  /\ ~outcome.ok
  /\ activeModel = "base"
  /\ overrides["base"] = "Failed"
  /\ \E i \in 1..Len(out) : out[i] = ModelStatusEvent("base", overrides)

\* C22: when device refresh or stream start fails, start and an auto-arming
\* manual_toggle reply with the error and leave the state, the armed flag, the
\* stored settings and the active model as they were, publishing no ptt_state.
C22_FailedStartChangesNothing ==
  [][(reply'.kind \in {"Start", "ManualToggle"} /\ ~reply'.ok
      /\ reply'.err \in {RefreshFailed, StreamStartFailed})
       => /\ UNCHANGED <<state, armed, settings, activeModel>>
          /\ \A i \in 1..Len(out') : out'[i].name # "ptt_state"]_vars

\* C23: a poisoned capture-buffer mutex is recovered and never surfaces as an
\* error: no reply carries the poisoning error, no ptt_error event reports
\* it, and the runtime never enters Error because of it while handling a
\* start or a hotkey edge.
C23_PoisoningNeverSurfaces ==
  /\ state # Error(BufferLockPoisoned)
  /\ reply.err # BufferLockPoisoned
  /\ \A i \in 1..Len(out) : out[i] # ErrorEvent(BufferLockPoisoned)

\* C24: when the keyboard backend fails the listener thread ends and joining
\* its handle returns the Listener error; the runtime drops the receiver
\* without changing its state or publishing anything, and afterwards a
\* manual_toggle waiting in the command channel is still received, answered,
\* and has its usual effect.
C24_RuntimeSurvivesListenerFailure ==
  /\ [][(hotkeyReceiver /\ ~hotkeyReceiver')
        => /\ Join = [ok |-> FALSE, err |-> "Listener(listen failed)"]
           /\ out' = <<>>
           /\ UNCHANGED <<state, stateStore, armed, settings, activeModel,
                          runtimeStarted, captureActive, audioRunning, rtpc>>]_vars
  /\ []((~Join.ok /\ rtpc = "idle" /\ reply.kind = "ManualToggle" /\ reply.ok
         /\ cur.kind = "ManualToggle")
        => /\ reply.state = state
           /\ ~cur.armed => (armed /\ state = Capturing /\ captureActive)
           /\ cur.state = Armed => (state = Capturing /\ captureActive)
           /\ cur.state = Capturing
                => (state = Armed /\ ~captureActive /\ outcome # NoResult))
  /\ (~Join.ok /\ \E i \in 1..Len(cmdQueue) : cmdQueue[i].kind = "ManualToggle")
       ~> (reply.kind = "ManualToggle")

C24_Witness ==
  /\ ~Join.ok
  /\ ~hotkeyReceiver
  /\ runtimeStarted
  /\ rtpc = "idle"
  /\ reply.kind = "ManualToggle"
  /\ reply.ok
  /\ cur.state = Capturing
  /\ state = Armed
  /\ outcome.ok

\* C25 as stated: for a registered model whose filename is empty, starts with
\* "/" or contains "..", every ModelManager call fails with InvalidFilename,
\* changes no file and invokes no downloader.
C25_DotDotAnywhereRejected ==
  [][(mmResult'.op # ""
      /\ \E spec \in registry :
           \/ spec.filename = <<>>
           \/ spec.filename[1] = "/"
           \/ \E i \in 1..(Len(spec.filename) - 1) :
                spec.filename[i] = "." /\ spec.filename[i + 1] = ".")
       => (mmResult'.err = "InvalidFilename" /\ files' = files
           /\ downloads' = downloads)]_vars

\* C25: for a registered model whose filename is empty, starts with "/" or
\* has a path component equal to "..", every ModelManager call (model_path,
\* ensure_model_available, ensure_model_cached, write_model_bytes) fails with
\* InvalidFilename, changes no file and invokes no downloader.
C25_UnsafeFilenameRejected ==
  [][(mmResult'.op # ""
      /\ \E spec \in registry :
           \/ spec.filename = <<>>
           \/ spec.filename[1] = "/"
           \/ \E i \in 1..(Len(spec.filename) - 1) :
                /\ SubSeq(spec.filename, i, i + 1) = <<".", ".">>
                /\ i > 1 => spec.filename[i - 1] = "/"
                /\ i + 1 < Len(spec.filename) => spec.filename[i + 2] = "/")
       => (mmResult'.err = "InvalidFilename" /\ files' = files
           /\ downloads' = downloads /\ mmpc' = "idle")]_vars

C25_Witness ==
  /\ registry # {}
  /\ \E spec \in registry : spec.filename = <<"m", "/", ".", ".", "/", "m">>
                            /\ spec.download_url # {}
  /\ mmResult.op = "ensure_model_cached"
  /\ mmResult.err = "InvalidFilename"
  /\ files = <<>>
  /\ downloads = 0

\* C26: when the downloader's bytes satisfy the spec, ensure_model_cached
\* calls that follow one another invoke the downloader once in total, on the
\* first call, if the file was missing or failed verification, and never if
\* the cached file already matched; a call that finds a matching file
\* downloads nothing.
C26_DownloadsOnce ==
  /\ [](mmScn.n >= 1 => downloads - mmScn.base = IF mmScn.hit THEN 0 ELSE 1)
  /\ [][(mmpc = "idle" /\ mmResult'.op = "ensure_model_cached"
         /\ mmResult'.err # "Io"
         /\ \E spec \in registry :
              /\ Lookup(registry) = "ok"
              /\ VerifyModelFile(files, spec.filename, spec, "ok") = "ok")
        => (mmResult'.ok /\ downloads' = downloads /\ files' = files)]_vars

C26_Witness ==
  /\ mmScn.n = 2
  /\ ~mmScn.hit
  /\ downloads = 1
  /\ mmResult.op = "ensure_model_cached"
  /\ mmResult.ok
  /\ \E spec \in registry : spec.size_bytes # {} /\ spec.sha256 # {}

\* C27: ensure_model_cached invokes the downloader exactly when the cached
\* file is missing or has the wrong size or checksum and the spec has a
\* download_url; an unregistered id, an unsafe filename, an I/O error of the
\* verification and a missing download_url are returned without a download.
C27_DownloadOnlyOnVerifyFailure ==
  [][(mmpc = "idle" /\ (mmResult'.op = "ensure_model_cached" \/ mmpc' = "created"))
       => LET stale == \E spec \in registry :
                         /\ Lookup(registry) = "ok"
                         /\ VerifyModelFile(files, spec.filename, spec, "ok") # "ok"
              url == \E spec \in registry : spec.download_url # {}
          IN /\ mmResult'.downloaded => (stale /\ url)
             /\ (stale /\ url) => (mmResult'.downloaded \/ mmResult'.err = "Io")
             /\ registry = {} => mmResult'.err = "UnregisteredModel"
             /\ Lookup(registry) = "InvalidFilename"
                  => mmResult'.err = "InvalidFilename"
             /\ (stale /\ ~url) => mmResult'.err \in {"MissingDownloadUrl", "Io"}
             /\ ~mmResult'.downloaded => (files' = files /\ downloads' = downloads)]_vars

C27_Witness ==
  /\ mmResult.op = "ensure_model_cached"
  /\ mmResult.err = "MissingDownloadUrl"
  /\ ~mmResult.downloaded
  /\ downloads = 0
  /\ \E spec \in registry : spec.filename \in DOMAIN files

\* C28: when the downloaded bytes do not satisfy the spec, ensure_model_cached
\* returns SizeMismatch if the size differs, whatever the checksum, and
\* ChecksumMismatch if only the checksum differs, and leaves every file of
\* the cache directory as it was, creating no temp file.
C28_BadDownloadLeavesCache ==
  [][(mmpc = "idle" /\ mmResult'.downloaded /\ mmResult'.err # "DownloadFailed")
       => \A spec \in registry :
            LET sizeBad == \E n \in spec.size_bytes : n # Len(mmResult'.bytes)
                sumBad == \E d \in spec.sha256 : d.of # mmResult'.bytes
            IN /\ sizeBad => mmResult'.err = "SizeMismatch"
               /\ (sumBad /\ ~sizeBad) => mmResult'.err = "ChecksumMismatch"
               /\ (sizeBad \/ sumBad) => (files' = files /\ mmpc' = "idle")]_vars

C28_Witness ==
  /\ mmResult.op = "ensure_model_cached"
  /\ mmResult.err = "SizeMismatch"
  /\ mmResult.downloaded
  /\ \E spec \in registry : \E d \in spec.sha256 : d.of # mmResult.bytes
  /\ \E spec \in registry : files = [q \in {spec.filename} |-> <<9, 7>>]

\* C29: at every step of an ensure_model_cached install the final model path
\* is left as it was or receives the complete verified bytes: the bytes go
\* to a separate temp file first and a failed write leaves the final path
\* untouched.
C29_FinalPathNeverPartial ==
  [][(mmpc # "idle" \/ mmpc' # "idle")
       => \A spec \in registry :
            LET path == spec.filename
            IN \/ path \notin DOMAIN files /\ path \notin DOMAIN files'
               \/ /\ path \in DOMAIN files
                  /\ path \in DOMAIN files'
                  /\ files'[path] = files[path]
               \/ /\ path \in DOMAIN files'
                  /\ files'[path] = pending
                  /\ VerifyModelBytes(spec, pending) = "ok"]_vars


\* C30: over any sequence of start and stop calls on AudioCaptureService,
\* start fails with AlreadyRunning exactly when a stream is active and then
\* leaves the stream, the meter and the selection as they were; stop fails
\* with NotRunning exactly when no stream is active; and is_running, false at
\* construction, becomes true only by a successful start, becomes false at
\* the next stop, and is changed by nothing else.
C30_StartStopContract ==
  /\ ~IsRunning(AudioSnapshot)
  /\ [][
       /\ audResult'.op = "start" =>
            /\ (audResult'.err = "AlreadyRunning") <=> IsRunning(AudioSnapshot)
            /\ IsRunning(AudioSnapshot) =>
                 UNCHANGED <<stream, built, meter, selectedDevice, devices>>
            /\ IsRunning(AudioSnapshot') <=>
                 audResult'.err \in {"ok", "AlreadyRunning"}
       /\ audResult'.op = "stop" =>
            /\ (audResult'.err = "NotRunning") <=> ~IsRunning(AudioSnapshot)
            /\ ~IsRunning(AudioSnapshot')
       /\ audResult'.op \notin {"start", "stop"} => UNCHANGED stream
     ]_vars

\* A second stream is running, it has delivered samples, and a start call has
\* just been refused with AlreadyRunning.
C30_Witness ==
  /\ audResult = [op |-> "start", err |-> "AlreadyRunning"]
  /\ stream = {2}
  /\ meter = 1


\* C31: an event the backend state machine does not accept in its current
\* state (any of StartRecording, StopRecording, StartProcessing,
\* FinishProcessing outside the four listed transitions) returns an "invalid
\* transition" error, leaves the state unchanged and emits no backend-state
\* event; Fail moves any state to Error(message) and Reset moves any state to
\* Idle, each emitting the new state.
C31_InvalidTransitionKeepsState ==
  [][
     /\ ~applied'.ok =>
          /\ applied'.err[1] = "invalid transition"
          /\ UNCHANGED <<machine, stateEvents>>
     /\ applied'.ok /\ applied'.event \notin {"Fail", "Reset"} =>
          <<machine.tag, applied'.event, machine'.tag>> \in
            {<<"Idle", "StartRecording", "Recording">>,
             <<"Idle", "StartProcessing", "Processing">>,
             <<"Recording", "StopRecording", "Processing">>,
             <<"Processing", "FinishProcessing", "Idle">>}
     /\ applied'.event = "Fail" =>
          /\ applied'.ok
          /\ machine'.tag = "Error"
          /\ machine'.message \in {"boom", "late"}
     /\ applied'.event = "Reset" => applied'.ok /\ machine' = Idle
     /\ applied'.ok => /\ applied'.state = machine'
                       /\ stateEvents' = Append(stateEvents, machine')
   ]_vars

\* FinishProcessing has just been refused in Recording, after one event was
\* emitted.
C31_Witness ==
  /\ ~applied.ok
  /\ applied.event = "FinishProcessing"
  /\ machine = Recording
  /\ Len(stateEvents) = 1


\* C32: after every inject_text call the first device call is get_text.  When
\* it succeeded, exactly one call after the first two restores the previous
\* content (set_text(previous), or clear when there was none), whether the
\* paste succeeded, the paste failed or the set failed, and the typer was
\* called, once, exactly when the set or the paste failed.  When get_text
\* failed, the only other call is one type_text.
C32_RestoreExactlyOnce ==
  injLog # <<>> =>
    LET previous == injLog[1].arg
        restores == {i \in 3..Len(injLog) :
                       injLog[i].op \in {"set_text", "clear"}}
        typings == {i \in 1..Len(injLog) : injLog[i].op = "type_text"}
        failed == \/ ~injLog[2].ok
                  \/ injLog[3].op = "paste" /\ ~injLog[3].ok
    IN /\ injLog[1].op = "get_text"
       /\ injLog[1].ok =>
            /\ injLog[2].op = "set_text"
            /\ Cardinality(restores) = 1
            /\ \A i \in restores :
                 /\ injLog[i].arg = previous
                 /\ injLog[i].op = IF previous = {} THEN "clear" ELSE "set_text"
            /\ Cardinality(typings) = IF failed THEN 1 ELSE 0
       /\ ~injLog[1].ok =>
            /\ Len(injLog) = 2
            /\ injLog[2].op = "type_text"
            /\ clipText = previous

\* The set failed with "old" on the clipboard: the injector restored "old"
\* and then typed.
C32_Witness ==
  /\ Len(injLog) = 4
  /\ injLog[1] = Call("get_text", {"old"}, TRUE)
  /\ ~injLog[2].ok
  /\ injLog[3] = Call("set_text", {"old"}, TRUE)
  /\ injLog[4].op = "type_text"


\* C33: the runtime enters Processing only from Capturing: a step that
\* publishes Processing starts in Capturing, so a Released edge handled in
\* Armed (or in any other state) starts no transcription.
C33_ProcessingOnlyFromCapturing ==
  [][state' = Processing /\ state # Processing => state = Capturing]_vars


\* C34: for a hotkey bound to "ptt" on both triggers, a Pressed edge the
\* listener emitted is followed by a Released edge once the key is released,
\* also when a modifier key was released in between: after the sequence
\* press key, release modifier, release key, the edges sent hold a Released
\* "ptt" edge whenever they hold a Pressed one.
C34_ReleaseFollowsPress ==
  (/\ scn = "mod_up_r"
   /\ TriggersOf(bindings, trace[1].hotkey) = Triggers
   /\ \A x \in bindings : x.hotkey = trace[1].hotkey => x.action = "ptt"
   /\ \E i \in 2..Len(trace) : trace[i].state = "Pressed" /\ trace[i].action = "ptt")
    => \E i \in 2..Len(trace) : trace[i].state = "Released" /\ trace[i].action = "ptt"


\* C35: no block delivered after a Pressed edge is lost.  While a press is
\* being captured, the blocks whose callback read capture_active = true since
\* the Pressed edge are, in order, the blocks of this press in the buffer
\* followed by the one still between its read and its append; and once
\* take_audio has drained the buffer at the Released edge no such block is
\* still waiting to be appended.
C35_NoBlockLost ==
  LET mine == SelectSeq(buffer, LAMBDA b : ~b.stale)
      flying == IF cbpc = "append" /\ ~cbBlock.stale THEN <<cbBlock>> ELSE <<>>
      seen == mine \o flying
  IN /\ (captureActive /\ rtpc = "idle" /\ rtctx = "poll" /\ cur.kind = "Pressed")
          => [i \in 1..Len(seen) |-> seen[i].id] = [i \in 1..blockSeq |-> i]
     /\ (rtpc = "transcribing" /\ rtctx = "poll") => flying = <<>>


\* C36: whenever the runtime is between handling steps, capture_active is
\* true if and only if PttState is Capturing.
C36_CaptureActiveIffCapturing ==
  rtpc = "idle" => (captureActive <=> state = Capturing)

\* C37: whenever the runtime is between handling steps, armed is true if and
\* only if the audio stream is running, PttState in {Armed, Capturing}
\* implies armed, and PttState = Idle implies not armed.
C37_ArmedIffStreamRunning ==
  rtpc = "idle" =>
    /\ armed <=> audioRunning
    /\ state \in {Armed, Capturing} => armed
    /\ state = Idle => ~armed

\* A start issued while Capturing has just failed: the runtime is still armed
\* and the stream is still running.
C37_Witness ==
  /\ rtpc = "idle"
  /\ reply.kind = "Start"
  /\ ~reply.ok
  /\ cur.state = Capturing
  /\ armed
  /\ audioRunning


\* C38: with two ensure_model_cached calls for the same model running
\* concurrently, the final model path, once it exists, holds content that
\* passes the model's verification at every moment, and a call that returns
\* the path returns it for such content.
C38_ConcurrentInstallsKeepFinalPath ==
  /\ DlPath \in DOMAIN dlDir => VerifyModelBytes(DlSpec, DirView[DlPath]) = "ok"
  /\ \A t \in DlThreads :
       dlThr[t].result = "ok" => VerifyModelFile(DirView, DlPath, DlSpec, "ok") = "ok"


\* C39: while a user-requested download of a model is in progress, the
\* model's status override is Downloading: nothing the runtime does clears
\* or replaces it before the download thread finishes.
C39_OverrideHeldDuringDownload ==
  \A m \in bgDownloads : overrides[m] = "Downloading"


\* C40: whenever armed is true, the runtime is set up as start() sets it up:
\* the level feed is attached and, when global hotkeys are allowed, the
\* hotkey listener has been started and its receiver is held.
C40_ArmedMeansRuntimeStarted ==
  armed => /\ runtimeStarted
           /\ levelReceiver
           /\ allowGlobalHotkeys => hotkeyReceiver

====
